---- MODULE Spec2Model ----
(***************************************************************************)
(* The off-chain payment-channel state machine of raiden/transfer/        *)
(* channel.py: one replica of a channel (our_state, partner_state and the  *)
(* transaction slots), advanced by locally created messages, received     *)
(* messages, secret registrations and on-chain events.                     *)
(***************************************************************************)
EXTENDS Integers, Sequences, FiniteSets, TLC

\* channel_state: the NettingChannelState of this replica (NoChannel once it
\* is cleared); processed: the received messages accepted so far; replica: the
\* partner's replica of the channel and the messages in flight to it;
\* contract_sends: how often each on-chain transaction was requested; chain:
\* the block number of the chain and the block that closed the channel on it.
VARIABLES channel_state, processed, replica, contract_sends, chain

vars == <<channel_state, processed, replica, contract_sends, chain>>

(***************************************************************************)
(* Bounds of the model.                                                    *)
(***************************************************************************)
\* Number of distinct secrethashes in play.
NumSecrets == 2
\* Lock amounts are drawn from 1..MaxAmount.
MaxAmount == 2
\* Lock expirations are drawn from 1..MaxExpiration.
MaxExpiration == 1
\* Balance proofs of both end-states together (caps the nonces).
MaxProofs == 2
\* Stand-in for 2^256 - 1: small, so that the overflow checks are exercised.
UINT256_MAX == 3
\* Stand-in for the per-channel cap on pending locks (width of the tree).
MAXIMUM_PENDING_TRANSFERS == 2
\* Stand-in for the number of confirmation blocks.
DEFAULT_NUMBER_OF_BLOCK_CONFIRMATIONS == 1
\* Deposit of each participant at channel open.
OurDeposit == 3
PartnerDeposit == 3
\* Blocks between the close and the settlement of the channel.
SettleTimeout == 1

\* Largest total deposit the chain reports for a participant.
MaxContractBalance == 4
\* Largest amount a withdraw request asks for.
MaxWithdraw == 4
\* Deposits waiting for their confirmation at one time.
MaxQueued == 2
\* The balance proofs one side creates, and the messages in flight, while the
\* partner's replica is followed.
MaxMirrorProofs == 3
MaxInFlight == 2
\* The requests of one on-chain transaction that are counted.
MaxContractSends == 2
\* The last block of the chain that is followed block by block.
MaxChainBlock == 5

SecretHashes == 1..NumSecrets
Amounts == 1..MaxAmount
Expirations == 1..MaxExpiration
TokenAmounts == 0..UINT256_MAX
MaxBlock == MaxExpiration + 2 * DEFAULT_NUMBER_OF_BLOCK_CONFIRMATIONS
Blocks == 1..MaxBlock
Nonces == 0..(MaxProofs + 1)

(***************************************************************************)
(* Locks and their hashes.                                                 *)
(***************************************************************************)
Locks == [amount : Amounts, expiration : Expirations, secrethash : SecretHashes]

\* Stands for None where a lock is expected.
NoLock == [amount |-> 0, expiration |-> 0, secrethash |-> 0]

\* HashTimeLockState.lockhash: the hash of the lock's packed fields, here an
\* injective code of (expiration, amount, secrethash), never 0.
lockhash(lock) ==
    (lock.expiration * (MaxAmount + 1) + lock.amount) * NumSecrets + lock.secrethash

LeafSpace == (MaxExpiration * (MaxAmount + 1) + MaxAmount) * NumSecrets + NumSecrets

(***************************************************************************)
(* Merkle tree: the list of leaves, and the root over its layers.          *)
(***************************************************************************)
EMPTY_MERKLE_ROOT == 0

\* keccak256(left || right): injective on pairs and disjoint from the leaves.
hash_pair(a, b) == ((a + b) * (a + b + 1)) \div 2 + b + LeafSpace + 1

\* One layer up: sibling pairs hashed in layer order, an odd last item is
\* carried up unchanged.
RECURSIVE next_layer(_)
next_layer(layer) ==
    IF Len(layer) = 0 THEN <<>>
    ELSE IF Len(layer) = 1 THEN layer
    ELSE <<hash_pair(layer[1], layer[2])>> \o next_layer(SubSeq(layer, 3, Len(layer)))

RECURSIVE merkleroot(_)
merkleroot(leaves) ==
    IF Len(leaves) = 0 THEN EMPTY_MERKLE_ROOT
    ELSE IF Len(leaves) = 1 THEN leaves[1]
    ELSE merkleroot(next_layer(leaves))

\* A locksroot that is the root of no tree.
UnknownRoot == hash_pair(0, 0)

\* Stands for None where a Merkle tree is expected (lockhash known/unknown).
NoTree == <<0>>

InLeaves(leaves, h) == \E i \in 1..Len(leaves) : leaves[i] = h

RECURSIVE remove_first(_, _)
remove_first(leaves, h) ==
    IF Len(leaves) = 0 THEN <<>>
    ELSE IF Head(leaves) = h THEN Tail(leaves)
    ELSE <<Head(leaves)>> \o remove_first(Tail(leaves), h)

compute_merkletree_with(merkletree, lh) ==
    IF InLeaves(merkletree, lh) THEN NoTree ELSE Append(merkletree, lh)

\* Faulty variant: drops the oldest leaf instead of the given one.
compute_merkletree_without_oldest(merkletree, lh) ==
    IF InLeaves(merkletree, lh) THEN Tail(merkletree) ELSE NoTree

compute_merkletree_without(merkletree, lh) ==
    IF InLeaves(merkletree, lh) THEN remove_first(merkletree, lh) ELSE NoTree

_merkletree_width(merkletree) == Len(merkletree)

(***************************************************************************)
(* Addresses, identifiers, balance proofs, end-states.                     *)
(***************************************************************************)
OurAddress == "our"
PartnerAddress == "partner"
OtherAddress == "other"
\* The signer when recover() raises: no address at all.
NoAddress == "unrecoverable"

ChannelIdentifier == "channel"
TokenNetworkAddress == "token_network"
ChainId == "chain"

\* Stands for None where a balance proof is expected; nonce 0 is never used.
NoBalanceProof ==
    [nonce |-> 0, transferred_amount |-> 0, locked_amount |-> 0,
     locksroot |-> EMPTY_MERKLE_ROOT, channel_identifier |-> ChannelIdentifier,
     token_network_address |-> TokenNetworkAddress, chain_id |-> ChainId,
     sender |-> NoAddress]

\* BalanceProofUnsignedState / BalanceProofSignedState; sender is the address
\* its signature recovers to (the local node for a proof created locally).
BalanceProof(nonce, transferred_amount, locked_amount, locksroot, sender) ==
    [nonce |-> nonce, transferred_amount |-> transferred_amount,
     locked_amount |-> locked_amount, locksroot |-> locksroot,
     channel_identifier |-> ChannelIdentifier,
     token_network_address |-> TokenNetworkAddress, chain_id |-> ChainId,
     sender |-> sender]

\* A map secrethash -> lock with no entry.
NoLocks == [h \in SecretHashes |-> NoLock]

\* NettingChannelEndState of a fresh channel.
EndState(address, deposit) ==
    [address |-> address,
     contract_balance |-> deposit,
     total_withdraw |-> 0,
     balance_proof |-> NoBalanceProof,
     merkletree |-> <<>>,
     secrethashes_to_lockedlocks |-> NoLocks,
     secrethashes_to_unlockedlocks |-> NoLocks,
     secrethashes_to_onchain_unlockedlocks |-> NoLocks,
     onchain_locksroot |-> EMPTY_MERKLE_ROOT]

\* Stands for None in a transaction slot and for None as a block number.
NoBlock == 0
NoTransaction == [started_block_number |-> NoBlock, finished_block_number |-> NoBlock,
                  result |-> "absent"]

\* TransactionExecutionStatus(started, finished, result).
TransactionExecutionStatus(started, finished, result) ==
    [started_block_number |-> started, finished_block_number |-> finished,
     result |-> result]

SumOver(map) ==
    LET RECURSIVE Sum(_)
        Sum(S) == IF S = {} THEN 0
                  ELSE LET h == CHOOSE x \in S : TRUE
                       IN map[h].amount + Sum(S \ {h})
    IN Sum(SecretHashes)

is_lock_pending(end_state, secrethash) ==
    \/ end_state.secrethashes_to_lockedlocks[secrethash] # NoLock
    \/ end_state.secrethashes_to_unlockedlocks[secrethash] # NoLock
    \/ end_state.secrethashes_to_onchain_unlockedlocks[secrethash] # NoLock

is_lock_locked(end_state, secrethash) ==
    end_state.secrethashes_to_lockedlocks[secrethash] # NoLock

get_sender_expiration_threshold(lock) ==
    lock.expiration + DEFAULT_NUMBER_OF_BLOCK_CONFIRMATIONS * 2

\* Faulty variant: the expiration block itself is the threshold.
get_receiver_expiration_threshold_unconfirmed(lock) ==
    lock.expiration

get_receiver_expiration_threshold(lock) ==
    lock.expiration + DEFAULT_NUMBER_OF_BLOCK_CONFIRMATIONS

\* A validation result: (ok, msg) and, for the message validators, the
\* candidate Merkle tree.
Ok(merkletree) == [ok |-> TRUE, msg |-> "", merkletree |-> merkletree]
Err(msg) == [ok |-> FALSE, msg |-> msg, merkletree |-> NoTree]

is_lock_expired(end_state, lock, block_number, lock_expiration_threshold) ==
    IF end_state.secrethashes_to_onchain_unlockedlocks[lock.secrethash] # NoLock
    THEN Err("lock has been unlocked on-chain")
    ELSE IF block_number < lock_expiration_threshold
    THEN Err("lock expiration not confirmed")
    ELSE Ok(NoTree)

get_amount_unclaimed_onchain(end_state) ==
    SumOver(end_state.secrethashes_to_onchain_unlockedlocks)

get_amount_locked(end_state) ==
    SumOver(end_state.secrethashes_to_lockedlocks)
    + SumOver(end_state.secrethashes_to_unlockedlocks)
    + get_amount_unclaimed_onchain(end_state)

\* Faulty variant: what the receiver has transferred is not credited.
get_balance_uncredited(sender, receiver) ==
    sender.contract_balance - sender.total_withdraw
    - sender.balance_proof.transferred_amount

\* Line 943 of the source lacks the operator between contract_balance and
\* total_withdraw; the subtraction is the formula of the upstream function.
get_balance(sender, receiver) ==
    sender.contract_balance - sender.total_withdraw
    - sender.balance_proof.transferred_amount
    + receiver.balance_proof.transferred_amount

\* (locksroot, nonce, transferred_amount, locked_amount) as a record.
get_current_balanceproof(end_state) ==
    IF end_state.balance_proof # NoBalanceProof
    THEN [locksroot |-> end_state.balance_proof.locksroot,
          nonce |-> end_state.balance_proof.nonce,
          transferred_amount |-> end_state.balance_proof.transferred_amount,
          locked_amount |-> get_amount_locked(end_state)]
    ELSE [locksroot |-> EMPTY_MERKLE_ROOT, nonce |-> 0,
          transferred_amount |-> 0, locked_amount |-> 0]

Max(a, b) == IF a >= b THEN a ELSE b
Min(a, b) == IF a <= b THEN a ELSE b

get_distributable(sender, receiver) ==
    LET current == get_current_balanceproof(sender)
        distributable == get_balance(sender, receiver) - get_amount_locked(sender)
        overflow_limit ==
            Max(UINT256_MAX - current.transferred_amount - current.locked_amount, 0)
    IN Min(overflow_limit, distributable)

get_lock(end_state, secrethash) ==
    IF end_state.secrethashes_to_lockedlocks[secrethash] # NoLock
    THEN end_state.secrethashes_to_lockedlocks[secrethash]
    ELSE IF end_state.secrethashes_to_unlockedlocks[secrethash] # NoLock
    THEN end_state.secrethashes_to_unlockedlocks[secrethash]
    ELSE end_state.secrethashes_to_onchain_unlockedlocks[secrethash]

\* Faulty variant: the next nonce skips one.
get_next_nonce_skipping(end_state) ==
    IF end_state.balance_proof # NoBalanceProof
    THEN end_state.balance_proof.nonce + 2
    ELSE 1

get_next_nonce(end_state) ==
    IF end_state.balance_proof # NoBalanceProof
    THEN end_state.balance_proof.nonce + 1
    ELSE 1

\* Faulty variant: the close transaction is looked at before the settle one.
get_status_close_first(cs) ==
    IF cs.close_transaction # NoTransaction
    THEN IF cs.close_transaction.result = "success" THEN "closed"
         ELSE IF cs.close_transaction.finished_block_number = NoBlock THEN "closing"
         ELSE "unusable"
    ELSE IF cs.settle_transaction # NoTransaction
    THEN IF cs.settle_transaction.result = "success" THEN "settled"
         ELSE IF cs.settle_transaction.finished_block_number = NoBlock THEN "settling"
         ELSE "unusable"
    ELSE "opened"

get_status(cs) ==
    IF cs.settle_transaction # NoTransaction
    THEN IF cs.settle_transaction.result = "success" THEN "settled"
         ELSE IF cs.settle_transaction.finished_block_number = NoBlock THEN "settling"
         ELSE "unusable"
    ELSE IF cs.close_transaction # NoTransaction
    THEN IF cs.close_transaction.result = "success" THEN "closed"
         ELSE IF cs.close_transaction.finished_block_number = NoBlock THEN "closing"
         ELSE "unusable"
    ELSE "opened"

CHANNEL_STATES_PRIOR_TO_CLOSED == {"opened"}

_del_unclaimed_lock(end_state, secrethash) ==
    [end_state EXCEPT !.secrethashes_to_lockedlocks[secrethash] = NoLock,
                      !.secrethashes_to_unlockedlocks[secrethash] = NoLock]

_del_lock(end_state, secrethash) ==
    [_del_unclaimed_lock(end_state, secrethash)
        EXCEPT !.secrethashes_to_onchain_unlockedlocks[secrethash] = NoLock]

is_balance_proof_safe_for_onchain_operations(balance_proof) ==
    balance_proof.transferred_amount + balance_proof.locked_amount <= UINT256_MAX

\* recover() either raises or yields the signer; the packed data binds the
\* signature to the proof's own fields, so the outcome is a field of the proof.
is_valid_balanceproof_signature(balance_proof, sender_address) ==
    IF balance_proof.sender = NoAddress
    THEN [ok |-> FALSE, msg |-> "Signature invalid, could not be recovered."]
    ELSE IF balance_proof.sender = sender_address
    THEN [ok |-> TRUE, msg |-> ""]
    ELSE [ok |-> FALSE, msg |-> "Signature was valid but the expected address does not match."]

\* Faulty variant: the nonce of the received proof is not looked at.
is_balance_proof_usable_onchain_any_nonce(received_balance_proof, cs, sender_state) ==
    LET signature == is_valid_balanceproof_signature(received_balance_proof,
                                                     sender_state.address)
    IN  IF get_status(cs) # "opened"
        THEN [ok |-> FALSE, msg |-> "The channel is already closed."]
        ELSE IF received_balance_proof.channel_identifier # cs.identifier
        THEN [ok |-> FALSE, msg |-> "channel_identifier does not match."]
        ELSE IF received_balance_proof.token_network_address # cs.token_network_address
        THEN [ok |-> FALSE, msg |-> "token_network_address does not match."]
        ELSE IF received_balance_proof.chain_id # cs.chain_id
        THEN [ok |-> FALSE, msg |-> "chain_id does not match."]
        ELSE IF ~is_balance_proof_safe_for_onchain_operations(received_balance_proof)
        THEN [ok |-> FALSE, msg |-> "Balance proof total transferred amount would overflow onchain."]
        ELSE IF ~signature.ok
        THEN [ok |-> FALSE, msg |-> signature.msg]
        ELSE [ok |-> TRUE, msg |-> ""]

\* Faulty variant: the status of the channel is not looked at.
is_balance_proof_usable_onchain_any_status(received_balance_proof, cs, sender_state) ==
    LET expected_nonce == get_next_nonce(sender_state)
        signature == is_valid_balanceproof_signature(received_balance_proof,
                                                     sender_state.address)
    IN  IF received_balance_proof.channel_identifier # cs.identifier
        THEN [ok |-> FALSE, msg |-> "channel_identifier does not match."]
        ELSE IF received_balance_proof.token_network_address # cs.token_network_address
        THEN [ok |-> FALSE, msg |-> "token_network_address does not match."]
        ELSE IF received_balance_proof.chain_id # cs.chain_id
        THEN [ok |-> FALSE, msg |-> "chain_id does not match."]
        ELSE IF ~is_balance_proof_safe_for_onchain_operations(received_balance_proof)
        THEN [ok |-> FALSE, msg |-> "Balance proof total transferred amount would overflow onchain."]
        ELSE IF received_balance_proof.nonce # expected_nonce
        THEN [ok |-> FALSE, msg |-> "Nonce did not change sequentially."]
        ELSE IF ~signature.ok
        THEN [ok |-> FALSE, msg |-> signature.msg]
        ELSE [ok |-> TRUE, msg |-> ""]

\* Faulty variant: the signature is looked at before the nonce.
is_balance_proof_usable_onchain_signature_first(received_balance_proof, cs, sender_state) ==
    LET expected_nonce == get_next_nonce(sender_state)
        signature == is_valid_balanceproof_signature(received_balance_proof,
                                                     sender_state.address)
    IN  IF get_status(cs) # "opened"
        THEN [ok |-> FALSE, msg |-> "The channel is already closed."]
        ELSE IF received_balance_proof.channel_identifier # cs.identifier
        THEN [ok |-> FALSE, msg |-> "channel_identifier does not match."]
        ELSE IF received_balance_proof.token_network_address # cs.token_network_address
        THEN [ok |-> FALSE, msg |-> "token_network_address does not match."]
        ELSE IF received_balance_proof.chain_id # cs.chain_id
        THEN [ok |-> FALSE, msg |-> "chain_id does not match."]
        ELSE IF ~is_balance_proof_safe_for_onchain_operations(received_balance_proof)
        THEN [ok |-> FALSE, msg |-> "Balance proof total transferred amount would overflow onchain."]
        ELSE IF ~signature.ok
        THEN [ok |-> FALSE, msg |-> signature.msg]
        ELSE IF received_balance_proof.nonce # expected_nonce
        THEN [ok |-> FALSE, msg |-> "Nonce did not change sequentially."]
        ELSE [ok |-> TRUE, msg |-> ""]

is_balance_proof_usable_onchain(received_balance_proof, cs, sender_state) ==
    LET expected_nonce == get_next_nonce(sender_state)
        signature == is_valid_balanceproof_signature(received_balance_proof,
                                                     sender_state.address)
    IN  IF get_status(cs) # "opened"
        THEN [ok |-> FALSE, msg |-> "The channel is already closed."]
        ELSE IF received_balance_proof.channel_identifier # cs.identifier
        THEN [ok |-> FALSE, msg |-> "channel_identifier does not match."]
        ELSE IF received_balance_proof.token_network_address # cs.token_network_address
        THEN [ok |-> FALSE, msg |-> "token_network_address does not match."]
        ELSE IF received_balance_proof.chain_id # cs.chain_id
        THEN [ok |-> FALSE, msg |-> "chain_id does not match."]
        ELSE IF ~is_balance_proof_safe_for_onchain_operations(received_balance_proof)
        THEN [ok |-> FALSE, msg |-> "Balance proof total transferred amount would overflow onchain."]
        ELSE IF received_balance_proof.nonce # expected_nonce
        THEN [ok |-> FALSE, msg |-> "Nonce did not change sequentially."]
        ELSE IF ~signature.ok
        THEN [ok |-> FALSE, msg |-> signature.msg]
        ELSE [ok |-> TRUE, msg |-> ""]

(***************************************************************************)
(* Validation of received messages.                                        *)
(***************************************************************************)
\* Faulty variant: the width of the candidate tree is not limited.
valid_lockedtransfer_check_unlimited(cs, sender_state, receiver_state, message_name, received_balance_proof, lock) ==
    LET current == get_current_balanceproof(sender_state)
        merkletree == compute_merkletree_with(sender_state.merkletree, lockhash(lock))
        distributable == get_distributable(sender_state, receiver_state)
        expected_locked_amount == current.locked_amount + lock.amount
        usable == is_balance_proof_usable_onchain(received_balance_proof, cs, sender_state)
    IN  IF ~usable.ok
        THEN Err(usable.msg)
        ELSE IF merkletree = NoTree
        THEN Err("Same lockhash handled twice.")
        ELSE IF received_balance_proof.locksroot # merkleroot(merkletree)
        THEN Err("Balance proof's locksroot didn't match.")
        ELSE IF received_balance_proof.transferred_amount # current.transferred_amount
        THEN Err("Balance proof's transferred_amount changed.")
        ELSE IF received_balance_proof.locked_amount # expected_locked_amount
        THEN Err("Balance proof's locked_amount is invalid.")
        ELSE IF lock.amount > distributable
        THEN Err("Lock amount larger than the available distributable.")
        ELSE Ok(merkletree)

valid_lockedtransfer_check(cs, sender_state, receiver_state, message_name, received_balance_proof, lock) ==
    LET current == get_current_balanceproof(sender_state)
        merkletree == compute_merkletree_with(sender_state.merkletree, lockhash(lock))
        distributable == get_distributable(sender_state, receiver_state)
        expected_locked_amount == current.locked_amount + lock.amount
        usable == is_balance_proof_usable_onchain(received_balance_proof, cs, sender_state)
    IN  IF ~usable.ok
        THEN Err(usable.msg)
        ELSE IF merkletree = NoTree
        THEN Err("Same lockhash handled twice.")
        ELSE IF _merkletree_width(merkletree) > MAXIMUM_PENDING_TRANSFERS
        THEN Err("Adding the transfer would exceed the allowed limit of pending transfers.")
        ELSE IF received_balance_proof.locksroot # merkleroot(merkletree)
        THEN Err("Balance proof's locksroot didn't match.")
        ELSE IF received_balance_proof.transferred_amount # current.transferred_amount
        THEN Err("Balance proof's transferred_amount changed.")
        ELSE IF received_balance_proof.locked_amount # expected_locked_amount
        THEN Err("Balance proof's locked_amount is invalid.")
        ELSE IF lock.amount > distributable
        THEN Err("Lock amount larger than the available distributable.")
        ELSE Ok(merkletree)

is_valid_lockedtransfer(transfer_state, cs, sender_state, receiver_state) ==
    valid_lockedtransfer_check(cs, sender_state, receiver_state, "LockedTransfer",
                               transfer_state.balance_proof, transfer_state.lock)

refund_transfer_matches_transfer(refund_transfer, transfer) ==
    IF refund_transfer.balance_proof.sender = transfer.target
    THEN FALSE
    ELSE /\ transfer.payment_identifier = refund_transfer.payment_identifier
         /\ transfer.lock.amount = refund_transfer.lock.amount
         /\ transfer.lock.secrethash = refund_transfer.lock.secrethash
         /\ transfer.target = refund_transfer.target
         /\ transfer.lock.expiration = refund_transfer.lock.expiration
         /\ transfer.token = refund_transfer.token

is_valid_refund(refund, cs, sender_state, receiver_state, received_transfer) ==
    LET check == valid_lockedtransfer_check(cs, sender_state, receiver_state,
                     "RefundTransfer", refund.transfer.balance_proof, refund.transfer.lock)
    IN  IF ~check.ok
        THEN Err(check.msg)
        ELSE IF ~refund_transfer_matches_transfer(refund.transfer, received_transfer)
        THEN Err("Refund transfer did not match the received transfer")
        ELSE Ok(check.merkletree)

\* Faulty variant: the balance proof is checked before the lock is looked up.
is_valid_unlock_proof_first(unlock, cs, sender_state) ==
    LET received_balance_proof == unlock.balance_proof
        current == get_current_balanceproof(sender_state)
        lock == get_lock(sender_state, unlock.secrethash)
        merkletree == compute_merkletree_without(sender_state.merkletree, lockhash(lock))
        expected_transferred_amount == current.transferred_amount + lock.amount
        expected_locked_amount == current.locked_amount - lock.amount
        usable == is_balance_proof_usable_onchain(received_balance_proof, cs, sender_state)
    IN  IF ~usable.ok
        THEN Err(usable.msg)
        ELSE IF lock = NoLock
        THEN Err("There is no corresponding lock.")
        ELSE IF merkletree = NoTree
        THEN Err("The lockhash is unknown.")
        ELSE IF received_balance_proof.locksroot # merkleroot(merkletree)
        THEN Err("Balance proof's locksroot didn't match.")
        ELSE IF received_balance_proof.transferred_amount # expected_transferred_amount
        THEN Err("Balance proof's wrong transferred_amount.")
        ELSE IF received_balance_proof.locked_amount # expected_locked_amount
        THEN Err("Balance proof's wrong locked_amount.")
        ELSE Ok(merkletree)

is_valid_unlock(unlock, cs, sender_state) ==
    LET received_balance_proof == unlock.balance_proof
        current == get_current_balanceproof(sender_state)
        lock == get_lock(sender_state, unlock.secrethash)
        merkletree == compute_merkletree_without(sender_state.merkletree, lockhash(lock))
        expected_transferred_amount == current.transferred_amount + lock.amount
        expected_locked_amount == current.locked_amount - lock.amount
        usable == is_balance_proof_usable_onchain(received_balance_proof, cs, sender_state)
    IN  IF lock = NoLock
        THEN Err("There is no corresponding lock.")
        ELSE IF merkletree = NoTree
        THEN Err("The lockhash is unknown.")
        ELSE IF ~usable.ok
        THEN Err(usable.msg)
        ELSE IF received_balance_proof.locksroot # merkleroot(merkletree)
        THEN Err("Balance proof's locksroot didn't match.")
        ELSE IF received_balance_proof.transferred_amount # expected_transferred_amount
        THEN Err("Balance proof's wrong transferred_amount.")
        ELSE IF received_balance_proof.locked_amount # expected_locked_amount
        THEN Err("Balance proof's wrong locked_amount.")
        ELSE Ok(merkletree)

is_transfer_expired(transfer, affected_channel, block_number) ==
    is_lock_expired(affected_channel.our_state, transfer.lock, block_number,
                    get_sender_expiration_threshold(transfer.lock)).ok

\* Faulty variant: the on-chain registration of the secret on the sender's
\* side is not looked at.
is_valid_lock_expired_onchain_unchecked(state_change, cs, sender_state, receiver_state, block_number) ==
    LET secrethash == state_change.secrethash
        received_balance_proof == state_change.balance_proof
        lock == IF cs.partner_state.secrethashes_to_lockedlocks[secrethash] # NoLock
                THEN cs.partner_state.secrethashes_to_lockedlocks[secrethash]
                ELSE cs.partner_state.secrethashes_to_unlockedlocks[secrethash]
        current == get_current_balanceproof(sender_state)
        usable == is_balance_proof_usable_onchain(received_balance_proof, cs, sender_state)
        merkletree == compute_merkletree_without(sender_state.merkletree, lockhash(lock))
        expected_locked_amount == current.locked_amount - lock.amount
        expired == is_lock_expired(receiver_state, lock, block_number,
                                   get_receiver_expiration_threshold(lock))
    IN  IF lock = NoLock
        THEN Err("Lock is not known.")
        ELSE IF ~usable.ok
        THEN Err(usable.msg)
        ELSE IF merkletree = NoTree
        THEN Err("Same lockhash handled twice.")
        ELSE IF ~expired.ok
        THEN Err(expired.msg)
        ELSE IF received_balance_proof.locksroot # merkleroot(merkletree)
        THEN Err("Balance proof's locksroot didn't match.")
        ELSE IF received_balance_proof.transferred_amount # current.transferred_amount
        THEN Err("Balance proof's transferred_amount changed.")
        ELSE IF received_balance_proof.locked_amount # expected_locked_amount
        THEN Err("Balance proof's locked_amount is invalid.")
        ELSE Ok(merkletree)

is_valid_lock_expired(state_change, cs, sender_state, receiver_state, block_number) ==
    LET secrethash == state_change.secrethash
        received_balance_proof == state_change.balance_proof
        lock == IF cs.partner_state.secrethashes_to_lockedlocks[secrethash] # NoLock
                THEN cs.partner_state.secrethashes_to_lockedlocks[secrethash]
                ELSE cs.partner_state.secrethashes_to_unlockedlocks[secrethash]
        secret_registered_on_chain ==
            cs.partner_state.secrethashes_to_onchain_unlockedlocks[secrethash] # NoLock
        current == get_current_balanceproof(sender_state)
        usable == is_balance_proof_usable_onchain(received_balance_proof, cs, sender_state)
        merkletree == compute_merkletree_without(sender_state.merkletree, lockhash(lock))
        expected_locked_amount == current.locked_amount - lock.amount
        expired == is_lock_expired(receiver_state, lock, block_number,
                                   get_receiver_expiration_threshold(lock))
    IN  IF secret_registered_on_chain
        THEN Err("Lock was unlocked on-chain.")
        ELSE IF lock = NoLock
        THEN Err("Lock is not known.")
        ELSE IF ~usable.ok
        THEN Err(usable.msg)
        ELSE IF merkletree = NoTree
        THEN Err("Same lockhash handled twice.")
        ELSE IF ~expired.ok
        THEN Err(expired.msg)
        ELSE IF received_balance_proof.locksroot # merkleroot(merkletree)
        THEN Err("Balance proof's locksroot didn't match.")
        ELSE IF received_balance_proof.transferred_amount # current.transferred_amount
        THEN Err("Balance proof's transferred_amount changed.")
        ELSE IF received_balance_proof.locked_amount # expected_locked_amount
        THEN Err("Balance proof's locked_amount is invalid.")
        ELSE Ok(merkletree)

(***************************************************************************)
(* Handlers of received messages: TransitionResult as a record of the new  *)
(* channel state and the events returned.                                  *)
(***************************************************************************)
Event(type, reason, balance_proof) ==
    [type |-> type, reason |-> reason, balance_proof |-> balance_proof]

TransitionResult(new_state, new_events) ==
    [new_state |-> new_state, events |-> new_events]

handle_receive_lockedtransfer(cs, mediated_transfer) ==
    LET valid == is_valid_lockedtransfer(mediated_transfer, cs,
                                         cs.partner_state, cs.our_state)
        lock == mediated_transfer.lock
    IN  IF valid.ok
        THEN TransitionResult(
                [cs EXCEPT !.partner_state.balance_proof = mediated_transfer.balance_proof,
                           !.partner_state.merkletree = valid.merkletree,
                           !.partner_state.secrethashes_to_lockedlocks[lock.secrethash] = lock],
                <<Event("SendProcessed", "", NoBalanceProof)>>)
        ELSE TransitionResult(cs,
                <<Event("EventInvalidReceivedLockedTransfer", valid.msg, NoBalanceProof)>>)

handle_refundtransfer(received_transfer, cs, refund) ==
    LET valid == is_valid_refund(refund, cs, cs.partner_state, cs.our_state,
                                 received_transfer)
        lock == refund.transfer.lock
    IN  IF valid.ok
        THEN TransitionResult(
                [cs EXCEPT !.partner_state.balance_proof = refund.transfer.balance_proof,
                           !.partner_state.merkletree = valid.merkletree,
                           !.partner_state.secrethashes_to_lockedlocks[lock.secrethash] = lock],
                <<Event("SendProcessed", "", NoBalanceProof)>>)
        ELSE TransitionResult(cs,
                <<Event("EventInvalidReceivedTransferRefund", valid.msg, NoBalanceProof)>>)

handle_receive_lock_expired(cs, state_change, block_number) ==
    LET valid == is_valid_lock_expired(state_change, cs, cs.partner_state,
                                       cs.our_state, block_number)
    IN  IF valid.ok
        THEN TransitionResult(
                [cs EXCEPT !.partner_state =
                    _del_unclaimed_lock(
                        [cs.partner_state EXCEPT !.balance_proof = state_change.balance_proof,
                                                 !.merkletree = valid.merkletree],
                        state_change.secrethash)],
                <<Event("SendProcessed", "", NoBalanceProof)>>)
        ELSE TransitionResult(cs,
                <<Event("EventInvalidReceivedLockExpired", valid.msg, NoBalanceProof)>>)

\* Faulty variant: the balance proof is stored before it is validated.
handle_unlock_commits_unchecked(cs, unlock) ==
    LET valid == is_valid_unlock(unlock, cs, cs.partner_state)
    IN  IF valid.ok
        THEN TransitionResult(
                [cs EXCEPT !.partner_state =
                    _del_lock(
                        [cs.partner_state EXCEPT !.balance_proof = unlock.balance_proof,
                                                 !.merkletree = valid.merkletree],
                        unlock.secrethash)],
                <<Event("SendProcessed", "", NoBalanceProof)>>)
        ELSE TransitionResult(
                [cs EXCEPT !.partner_state.balance_proof = unlock.balance_proof],
                <<Event("EventInvalidReceivedUnlock", valid.msg, NoBalanceProof)>>)

handle_unlock(cs, unlock) ==
    LET valid == is_valid_unlock(unlock, cs, cs.partner_state)
    IN  IF valid.ok
        THEN TransitionResult(
                [cs EXCEPT !.partner_state =
                    _del_lock(
                        [cs.partner_state EXCEPT !.balance_proof = unlock.balance_proof,
                                                 !.merkletree = valid.merkletree],
                        unlock.secrethash)],
                <<Event("SendProcessed", "", NoBalanceProof)>>)
        ELSE TransitionResult(cs,
                <<Event("EventInvalidReceivedUnlock", valid.msg, NoBalanceProof)>>)

(***************************************************************************)
(* Locally created messages.  An assertion of the source that fails raises *)
(* before anything is changed: the operation is then not enabled.          *)
(***************************************************************************)
create_sendlockedtransfer_enabled(cs, lock) ==
    /\ lock.amount <= get_distributable(cs.our_state, cs.partner_state)
    /\ get_status(cs) = "opened"
    /\ compute_merkletree_with(cs.our_state.merkletree, lockhash(lock)) # NoTree
    /\ cs.our_state.balance_proof.transferred_amount + lock.amount <= UINT256_MAX

\* The balance proof and the Merkle tree of the new locked transfer.
create_sendlockedtransfer(cs, lock) ==
    LET merkletree == compute_merkletree_with(cs.our_state.merkletree, lockhash(lock))
    IN  [balance_proof |->
            BalanceProof(get_next_nonce(cs.our_state),
                         cs.our_state.balance_proof.transferred_amount,
                         get_amount_locked(cs.our_state) + lock.amount,
                         merkleroot(merkletree),
                         OurAddress),
         lock |-> lock,
         merkletree |-> merkletree]

\* Faulty variant: the balance proof is stored, the Merkle tree is not.
send_lockedtransfer_stale_merkletree(cs, lock) ==
    LET created == create_sendlockedtransfer(cs, lock)
    IN  TransitionResult(
            [cs EXCEPT !.our_state.balance_proof = created.balance_proof,
                       !.our_state.secrethashes_to_lockedlocks[lock.secrethash] = lock],
            <<Event("SendLockedTransfer", "", created.balance_proof)>>)

send_lockedtransfer(cs, lock) ==
    LET created == create_sendlockedtransfer(cs, lock)
    IN  TransitionResult(
            [cs EXCEPT !.our_state.balance_proof = created.balance_proof,
                       !.our_state.merkletree = created.merkletree,
                       !.our_state.secrethashes_to_lockedlocks[lock.secrethash] = lock],
            <<Event("SendLockedTransfer", "", created.balance_proof)>>)

send_refundtransfer_enabled(cs, lock) ==
    /\ cs.partner_state.secrethashes_to_lockedlocks[lock.secrethash] # NoLock
    /\ get_status(cs) = "opened"
    /\ create_sendlockedtransfer_enabled(cs, lock)

send_refundtransfer(cs, lock) ==
    LET created == create_sendlockedtransfer(cs, lock)
    IN  TransitionResult(
            [cs EXCEPT !.our_state.balance_proof = created.balance_proof,
                       !.our_state.merkletree = created.merkletree,
                       !.our_state.secrethashes_to_lockedlocks[lock.secrethash] = lock],
            <<Event("SendRefundTransfer", "", created.balance_proof)>>)

create_unlock_enabled(cs, lock) ==
    /\ lock # NoLock
    /\ is_lock_pending(cs.our_state, lock.secrethash)
    /\ get_status(cs) = "opened"
    /\ cs.our_state.balance_proof # NoBalanceProof
    /\ compute_merkletree_without(cs.our_state.merkletree, lockhash(lock)) # NoTree

\* Faulty variant: the unlocked amount is not added to transferred_amount.
create_unlock_unclaimed(cs, lock) ==
    LET merkletree == compute_merkletree_without(cs.our_state.merkletree, lockhash(lock))
    IN  [balance_proof |->
            BalanceProof(get_next_nonce(cs.our_state),
                         cs.our_state.balance_proof.transferred_amount,
                         get_amount_locked(cs.our_state) - lock.amount,
                         merkleroot(merkletree),
                         OurAddress),
         merkletree |-> merkletree]

create_unlock(cs, lock) ==
    LET merkletree == compute_merkletree_without(cs.our_state.merkletree, lockhash(lock))
    IN  [balance_proof |->
            BalanceProof(get_next_nonce(cs.our_state),
                         lock.amount + cs.our_state.balance_proof.transferred_amount,
                         get_amount_locked(cs.our_state) - lock.amount,
                         merkleroot(merkletree),
                         OurAddress),
         merkletree |-> merkletree]

send_unlock(cs, secrethash) ==
    LET lock == get_lock(cs.our_state, secrethash)
        unlock == create_unlock(cs, lock)
    IN  TransitionResult(
            [cs EXCEPT !.our_state =
                _del_lock([cs.our_state EXCEPT !.balance_proof = unlock.balance_proof,
                                               !.merkletree = unlock.merkletree],
                          lock.secrethash)],
            <<Event("SendBalanceProof", "", unlock.balance_proof)>>)

\* (message, tree); the tree is NoTree when the lockhash is not a leaf.
create_sendexpiredlock(sender_end_state, locked_lock) ==
    LET merkletree == compute_merkletree_without(sender_end_state.merkletree,
                                                 lockhash(locked_lock))
    IN  [balance_proof |->
            BalanceProof(get_next_nonce(sender_end_state),
                         sender_end_state.balance_proof.transferred_amount,
                         get_amount_locked(sender_end_state) - locked_lock.amount,
                         IF merkletree = NoTree THEN EMPTY_MERKLE_ROOT
                         ELSE merkleroot(merkletree),
                         OurAddress),
         merkletree |-> merkletree]

events_for_expired_lock_enabled(cs) ==
    /\ get_status(cs) = "opened"
    /\ cs.our_state.balance_proof # NoBalanceProof

events_for_expired_lock(cs, locked_lock) ==
    LET created == create_sendexpiredlock(cs.our_state, locked_lock)
    IN  IF created.merkletree # NoTree
        THEN TransitionResult(
                [cs EXCEPT !.our_state =
                    _del_unclaimed_lock(
                        [cs.our_state EXCEPT !.merkletree = created.merkletree,
                                             !.balance_proof = created.balance_proof],
                        locked_lock.secrethash)],
                <<Event("SendLockExpired", "", created.balance_proof)>>)
        ELSE TransitionResult(cs, <<>>)

(***************************************************************************)
(* Secret registration.                                                    *)
(***************************************************************************)
register_secret_endstate(end_state, secrethash) ==
    IF is_lock_locked(end_state, secrethash)
    THEN [end_state EXCEPT
            !.secrethashes_to_lockedlocks[secrethash] = NoLock,
            !.secrethashes_to_unlockedlocks[secrethash] =
                end_state.secrethashes_to_lockedlocks[secrethash]]
    ELSE end_state

\* Faulty variant: a reveal mined after the expiration of the lock counts.
register_onchain_secret_endstate_late(end_state, secrethash, secret_reveal_block_number, delete_lock) ==
    LET pending_lock ==
            IF end_state.secrethashes_to_unlockedlocks[secrethash] # NoLock
            THEN end_state.secrethashes_to_unlockedlocks[secrethash]
            ELSE end_state.secrethashes_to_lockedlocks[secrethash]
        kept == IF delete_lock THEN _del_lock(end_state, secrethash) ELSE end_state
    IN  IF pending_lock = NoLock
        THEN end_state
        ELSE [kept EXCEPT !.secrethashes_to_onchain_unlockedlocks[secrethash] = pending_lock]

register_onchain_secret_endstate(end_state, secrethash, secret_reveal_block_number, delete_lock) ==
    LET pending_lock ==
            IF end_state.secrethashes_to_unlockedlocks[secrethash] # NoLock
            THEN end_state.secrethashes_to_unlockedlocks[secrethash]
            ELSE end_state.secrethashes_to_lockedlocks[secrethash]
        kept == IF delete_lock THEN _del_lock(end_state, secrethash) ELSE end_state
    IN  IF pending_lock = NoLock
        THEN end_state
        ELSE IF pending_lock.expiration < secret_reveal_block_number
        THEN end_state
        ELSE [kept EXCEPT !.secrethashes_to_onchain_unlockedlocks[secrethash] = pending_lock]

register_offchain_secret(cs, secrethash) ==
    [cs EXCEPT !.our_state = register_secret_endstate(cs.our_state, secrethash),
               !.partner_state = register_secret_endstate(cs.partner_state, secrethash)]

register_onchain_secret(cs, secrethash, secret_reveal_block_number, delete_lock) ==
    [cs EXCEPT
        !.our_state = register_onchain_secret_endstate(
            cs.our_state, secrethash, secret_reveal_block_number, delete_lock),
        !.partner_state = register_onchain_secret_endstate(
            cs.partner_state, secrethash, secret_reveal_block_number, delete_lock)]

(***************************************************************************)
(* Closing the channel.                                                    *)
(***************************************************************************)
\* Faulty variant: the close is sent whatever the status.
events_for_close_any_status(cs, block_number) ==
    TransitionResult(
        [cs EXCEPT !.close_transaction =
            TransactionExecutionStatus(block_number, NoBlock, "none")],
        <<Event("ContractSendChannelClose", "", cs.partner_state.balance_proof)>>)

events_for_close(cs, block_number) ==
    IF get_status(cs) \in CHANNEL_STATES_PRIOR_TO_CLOSED
    THEN TransitionResult(
            [cs EXCEPT !.close_transaction =
                TransactionExecutionStatus(block_number, NoBlock, "none")],
            <<Event("ContractSendChannelClose", "", cs.partner_state.balance_proof)>>)
    ELSE TransitionResult(cs, <<>>)

handle_action_close(cs, block_number) == events_for_close(cs, block_number)

set_closed(cs, block_number) ==
    IF cs.close_transaction = NoTransaction
    THEN [cs EXCEPT !.close_transaction =
            TransactionExecutionStatus(NoBlock, block_number, "success")]
    ELSE IF cs.close_transaction.finished_block_number = NoBlock
    THEN [cs EXCEPT !.close_transaction.finished_block_number = block_number,
                    !.close_transaction.result = "success"]
    ELSE cs

handle_channel_closed(cs, state_change) ==
    LET just_closed == /\ state_change.channel_identifier = cs.identifier
                       /\ get_status(cs) \in CHANNEL_STATES_PRIOR_TO_CLOSED
        closed == set_closed(cs, state_change.block_number)
        balance_proof == cs.partner_state.balance_proof
        call_update == /\ state_change.transaction_from # cs.our_state.address
                       /\ balance_proof # NoBalanceProof
                       /\ cs.update_transaction = NoTransaction
    IN  IF just_closed
        THEN IF call_update
             THEN TransitionResult(
                    [closed EXCEPT !.update_transaction =
                        TransactionExecutionStatus(state_change.block_number, NoBlock, "none")],
                    <<Event("ContractSendChannelUpdateTransfer", "", balance_proof)>>)
             ELSE TransitionResult(closed, <<>>)
        ELSE TransitionResult(cs, <<>>)

handle_channel_updated_transfer(cs, state_change, block_number) ==
    IF state_change.channel_identifier = cs.identifier
    THEN TransitionResult(
            [cs EXCEPT !.update_transaction =
                TransactionExecutionStatus(NoBlock, block_number, "success")],
            <<>>)
    ELSE TransitionResult(cs, <<>>)

(***************************************************************************)
(* Withdraw requests of the partner.                                       *)
(***************************************************************************)
\* recover() on the packed request either raises or yields the signer.
is_valid_signature(signer_address, sender_address) ==
    IF signer_address = NoAddress
    THEN [ok |-> FALSE, msg |-> "Signature invalid, could not be recovered."]
    ELSE IF sender_address = signer_address
    THEN [ok |-> TRUE, msg |-> ""]
    ELSE [ok |-> FALSE, msg |-> "Signature was valid but the expected address does not match."]

is_valid_withdraw_request(withdraw_request, cs) ==
    LET balance == get_balance(cs.partner_state, cs.our_state)
        signature == is_valid_signature(withdraw_request.sender, cs.partner_state.address)
    IN  IF balance < withdraw_request.amount
        THEN [ok |-> FALSE, msg |-> "Insufficient balance for withdraw."]
        ELSE IF ~signature.ok
        THEN [ok |-> FALSE, msg |-> signature.msg]
        ELSE [ok |-> TRUE, msg |-> ""]

\* A SuccessOrError used as a condition: a tuple is true when it has items.
truth_value(success_or_error) == DOMAIN success_or_error # {}

handle_receive_withdraw_request(cs, withdraw_request) ==
    IF truth_value(is_valid_withdraw_request(withdraw_request, cs))
    THEN TransitionResult(cs, <<Event("SendWithdraw", "", NoBalanceProof)>>)
    ELSE TransitionResult(cs, <<>>)

\* A call that raises: no result reaches the caller, the channel state is as
\* it was and no event is returned.
Raises(cs, exception) == TransitionResult(cs, <<>>)

\* Line 1643 calls get_balance with the sender alone; the receiver parameter
\* has no default, so the call raises TypeError before the balance is compared
\* with withdraw.total_withdraw and before events_for_withdraw is reached.
handle_action_withdraw(cs, withdraw, block_number) == Raises(cs, "TypeError")

\* The branch of state_transition for ActionChannelWithdraw (lines 2021-2029)
\* passes the state change as close=, a parameter handle_action_withdraw does
\* not have: the call itself raises TypeError.
dispatch_action_withdraw(cs, state_change, block_number) == Raises(cs, "TypeError")

(***************************************************************************)
(* Settlement and deposits.                                                *)
(***************************************************************************)
is_transaction_confirmed(transaction_block_number, blockchain_block_number) ==
    blockchain_block_number >
        transaction_block_number + DEFAULT_NUMBER_OF_BLOCK_CONFIRMATIONS

is_deposit_confirmed(cs, block_number) ==
    IF Len(cs.deposit_transaction_queue) = 0
    THEN FALSE
    ELSE is_transaction_confirmed(cs.deposit_transaction_queue[1].block_number,
                                  block_number)

\* Faulty variant: the reported total is stored even when it is smaller.
update_contract_balance_unchecked(end_state, contract_balance) ==
    [end_state EXCEPT !.contract_balance = contract_balance]

update_contract_balance(end_state, contract_balance) ==
    IF contract_balance > end_state.contract_balance
    THEN [end_state EXCEPT !.contract_balance = contract_balance]
    ELSE end_state

apply_channel_newbalance(cs, deposit_transaction) ==
    IF deposit_transaction.participant_address = cs.our_state.address
    THEN [cs EXCEPT !.our_state =
            update_contract_balance(cs.our_state, deposit_transaction.contract_balance)]
    ELSE IF deposit_transaction.participant_address = cs.partner_state.address
    THEN [cs EXCEPT !.partner_state =
            update_contract_balance(cs.partner_state, deposit_transaction.contract_balance)]
    ELSE cs

\* The loop of handle_block: pop and apply while the head of the queue (its
\* smallest block number) is confirmed.
RECURSIVE pop_confirmed_deposits(_, _)
pop_confirmed_deposits(cs, block_number) ==
    IF is_deposit_confirmed(cs, block_number)
    THEN pop_confirmed_deposits(
            apply_channel_newbalance(
                [cs EXCEPT !.deposit_transaction_queue = Tail(cs.deposit_transaction_queue)],
                cs.deposit_transaction_queue[1].transaction),
            block_number)
    ELSE cs

\* Faulty variant: the settlement starts on the last block of the timeout.
handle_block_at_timeout(cs, state_change, block_number) ==
    LET settlement_end == cs.close_transaction.finished_block_number + cs.settle_timeout
        settle == /\ get_status(cs) = "closed"
                  /\ state_change.block_number >= settlement_end
        settling == IF settle
                    THEN [cs EXCEPT !.settle_transaction =
                            TransactionExecutionStatus(state_change.block_number,
                                                       NoBlock, "none")]
                    ELSE cs
    IN  TransitionResult(
            pop_confirmed_deposits(settling, block_number),
            IF settle THEN <<Event("ContractSendChannelSettle", "", NoBalanceProof)>>
            ELSE <<>>)

\* Faulty variant: a Block after the settlement window asks for the settle
\* again while the first request is running.
handle_block_settles_again(cs, state_change, block_number) ==
    LET settlement_end == cs.close_transaction.finished_block_number + cs.settle_timeout
        settle == /\ get_status(cs) \in {"closed", "settling"}
                  /\ state_change.block_number > settlement_end
        settling == IF settle
                    THEN [cs EXCEPT !.settle_transaction =
                            TransactionExecutionStatus(state_change.block_number,
                                                       NoBlock, "none")]
                    ELSE cs
    IN  TransitionResult(
            pop_confirmed_deposits(settling, block_number),
            IF settle THEN <<Event("ContractSendChannelSettle", "", NoBalanceProof)>>
            ELSE <<>>)

handle_block(cs, state_change, block_number) ==
    LET settlement_end == cs.close_transaction.finished_block_number + cs.settle_timeout
        settle == /\ get_status(cs) = "closed"
                  /\ state_change.block_number > settlement_end
        settling == IF settle
                    THEN [cs EXCEPT !.settle_transaction =
                            TransactionExecutionStatus(state_change.block_number,
                                                       NoBlock, "none")]
                    ELSE cs
    IN  TransitionResult(
            pop_confirmed_deposits(settling, block_number),
            IF settle THEN <<Event("ContractSendChannelSettle", "", NoBalanceProof)>>
            ELSE <<>>)

\* heapq.heappush on the queue of TransactionOrder: the queue is kept with
\* its smallest block number first; an entry goes after those of its block.
RECURSIVE heappush(_, _)
heappush(queue, order) ==
    IF Len(queue) = 0 THEN <<order>>
    ELSE IF order.block_number < queue[1].block_number THEN <<order>> \o queue
    ELSE <<queue[1]>> \o heappush(Tail(queue), order)

TransactionOrder(block_number, transaction) ==
    [block_number |-> block_number, transaction |-> transaction]

handle_channel_newbalance(cs, state_change, block_number) ==
    LET deposit_transaction == state_change.deposit_transaction
    IN  IF is_transaction_confirmed(deposit_transaction.deposit_block_number, block_number)
        THEN TransitionResult(apply_channel_newbalance(cs, deposit_transaction), <<>>)
        ELSE TransitionResult(
                [cs EXCEPT !.deposit_transaction_queue =
                    heappush(cs.deposit_transaction_queue,
                             TransactionOrder(deposit_transaction.deposit_block_number,
                                              deposit_transaction))],
                <<>>)

\* Faulty variant: a later settle event replaces the recorded one.
set_settled_overwrites(cs, block_number) ==
    [cs EXCEPT !.settle_transaction =
        TransactionExecutionStatus(NoBlock, block_number, "success")]

set_settled(cs, block_number) ==
    IF cs.settle_transaction = NoTransaction
    THEN [cs EXCEPT !.settle_transaction =
            TransactionExecutionStatus(NoBlock, block_number, "success")]
    ELSE IF cs.settle_transaction.finished_block_number = NoBlock
    THEN [cs EXCEPT !.settle_transaction.finished_block_number = block_number,
                    !.settle_transaction.result = "success"]
    ELSE cs

(***************************************************************************)
(* The messages the partner may deliver: the message the validator expects *)
(* with at most one field replaced by any value of its range, and every    *)
(* message that was processed before.                                      *)
(***************************************************************************)
Message(kind, balance_proof, lock, secrethash, payment_identifier, target, token) ==
    [kind |-> kind, balance_proof |-> balance_proof, lock |-> lock,
     secrethash |-> secrethash, payment_identifier |-> payment_identifier,
     target |-> target, token |-> token]

RootOf(merkletree, fallback) ==
    IF merkletree = NoTree THEN merkleroot(fallback) ELSE merkleroot(merkletree)

Deviations(cs, proof) ==
    {proof}
    \cup {[proof EXCEPT !.nonce = n] : n \in Nonces}
    \cup {[proof EXCEPT !.transferred_amount = a] : a \in TokenAmounts}
    \cup {[proof EXCEPT !.locked_amount = a] : a \in TokenAmounts}
    \cup {[proof EXCEPT !.locksroot = r] :
            r \in {EMPTY_MERKLE_ROOT, UnknownRoot, merkleroot(cs.partner_state.merkletree)}}
    \cup {[proof EXCEPT !.channel_identifier = "other_channel"],
          [proof EXCEPT !.token_network_address = "other_token_network"],
          [proof EXCEPT !.chain_id = "other_chain"],
          [proof EXCEPT !.sender = OtherAddress],
          [proof EXCEPT !.sender = NoAddress]}

ExpectedLockedTransfer(cs, lock) ==
    LET partner == cs.partner_state
    IN  BalanceProof(get_next_nonce(partner),
                     partner.balance_proof.transferred_amount,
                     get_amount_locked(partner) + lock.amount,
                     RootOf(compute_merkletree_with(partner.merkletree, lockhash(lock)),
                            partner.merkletree),
                     PartnerAddress)

ExpectedUnlock(cs, secrethash) ==
    LET partner == cs.partner_state
        lock == get_lock(partner, secrethash)
    IN  BalanceProof(get_next_nonce(partner),
                     partner.balance_proof.transferred_amount + lock.amount,
                     get_amount_locked(partner) - lock.amount,
                     RootOf(compute_merkletree_without(partner.merkletree, lockhash(lock)),
                            partner.merkletree),
                     PartnerAddress)

ExpectedLockExpired(cs, secrethash) ==
    LET partner == cs.partner_state
        lock == get_lock(partner, secrethash)
    IN  BalanceProof(get_next_nonce(partner),
                     partner.balance_proof.transferred_amount,
                     get_amount_locked(partner) - lock.amount,
                     RootOf(compute_merkletree_without(partner.merkletree, lockhash(lock)),
                            partner.merkletree),
                     PartnerAddress)

Replays(kind) == {m \in processed : m.kind = kind}

ProofVariants(cs, kind, lock, secrethash, expected) ==
    {Message(kind, proof, lock, secrethash, "payment", "target", "token") :
        proof \in Deviations(cs, expected)}

LockedTransferMessages(cs) ==
    UNION {ProofVariants(cs, "LockedTransfer", lock, lock.secrethash,
                         ExpectedLockedTransfer(cs, lock)) : lock \in Locks}
    \cup Replays("LockedTransfer")

\* A refund and the transfer of ours it is matched against
\* (LockedTransferUnsignedState): any refund against the transfer it mirrors,
\* and the expected refund against a transfer that differs in one field.
OriginalTransfer(payment_identifier, lock, target, token) ==
    [payment_identifier |-> payment_identifier, lock |-> lock, target |-> target,
     token |-> token]

RefundTransferMessages(cs) ==
    UNION {ProofVariants(cs, "RefundTransfer", lock, lock.secrethash,
                         ExpectedLockedTransfer(cs, lock)) : lock \in Locks}
    \cup Replays("RefundTransfer")

OriginalTransfers(cs, m) ==
    {OriginalTransfer(m.payment_identifier, m.lock, m.target, m.token)}
    \cup IF m.balance_proof = ExpectedLockedTransfer(cs, m.lock)
         THEN {OriginalTransfer("other_payment", m.lock, m.target, m.token),
               OriginalTransfer(m.payment_identifier, m.lock, "other_target", m.token),
               OriginalTransfer(m.payment_identifier, m.lock, PartnerAddress, m.token),
               OriginalTransfer(m.payment_identifier, m.lock, m.target, "other_token")}
              \cup {OriginalTransfer(m.payment_identifier, l, m.target, m.token) :
                        l \in Locks}
         ELSE {}

UnlockMessages(cs) ==
    UNION {ProofVariants(cs, "Unlock", NoLock, secrethash, ExpectedUnlock(cs, secrethash)) :
            secrethash \in SecretHashes}
    \cup Replays("Unlock")

LockExpiredMessages(cs) ==
    UNION {ProofVariants(cs, "LockExpired", NoLock, secrethash,
                         ExpectedLockExpired(cs, secrethash)) :
            secrethash \in SecretHashes}
    \cup Replays("LockExpired")

\* The blocks at which a LockExpired is delivered: the expected message at any
\* block, every other one after all expirations are confirmed.
DeliveryBlocks(cs, m) ==
    IF m.balance_proof = ExpectedLockExpired(cs, m.secrethash) THEN Blocks ELSE {MaxBlock}

(***************************************************************************)
(* The state machine.                                                      *)
(***************************************************************************)
InitialChannel ==
    [identifier |-> ChannelIdentifier,
     token_network_address |-> TokenNetworkAddress,
     chain_id |-> ChainId,
     our_state |-> EndState(OurAddress, OurDeposit),
     partner_state |-> EndState(PartnerAddress, PartnerDeposit),
     settle_timeout |-> SettleTimeout,
     close_transaction |-> NoTransaction,
     settle_transaction |-> NoTransaction,
     update_transaction |-> NoTransaction,
     deposit_transaction_queue |-> <<>>]

\* The partner's replica of the fresh channel: the end-states change places.
\* Nothing is in flight.
InitialReplica ==
    [channel_state |->
        [InitialChannel EXCEPT !.our_state = EndState(PartnerAddress, PartnerDeposit),
                               !.partner_state = EndState(OurAddress, OurDeposit)],
     in_flight |-> <<>>]

\* The events that ask for a transaction of the channel's life cycle.
ContractSends ==
    {"ContractSendChannelClose", "ContractSendChannelUpdateTransfer",
     "ContractSendChannelSettle"}

\* The count of each of them after the events of one transition, up to
\* MaxContractSends.
CountContractSends(counts, events) ==
    [type \in ContractSends |->
        Min(MaxContractSends,
            counts[type] + Cardinality({i \in DOMAIN events : events[i].type = type}))]

\* Stands for None where a channel state is expected: the channel is gone.
NoChannel == [InitialChannel EXCEPT !.identifier = "none"]

\* Faulty variant: the channel is cleared when either locksroot is empty.
handle_channel_settled_clears_early(cs, state_change) ==
    LET settled == set_settled(cs, state_change.block_number)
        should_clear_channel ==
            \/ state_change.our_onchain_locksroot = EMPTY_MERKLE_ROOT
            \/ state_change.partner_onchain_locksroot = EMPTY_MERKLE_ROOT
    IN  IF state_change.channel_identifier = cs.identifier
        THEN IF should_clear_channel
             THEN TransitionResult(NoChannel, <<>>)
             ELSE TransitionResult(
                    [settled EXCEPT
                        !.our_state.onchain_locksroot = state_change.our_onchain_locksroot,
                        !.partner_state.onchain_locksroot =
                            state_change.partner_onchain_locksroot],
                    <<Event("ContractSendChannelBatchUnlock", "", NoBalanceProof)>>)
        ELSE TransitionResult(cs, <<>>)

handle_channel_settled(cs, state_change) ==
    LET settled == set_settled(cs, state_change.block_number)
        should_clear_channel ==
            /\ state_change.our_onchain_locksroot = EMPTY_MERKLE_ROOT
            /\ state_change.partner_onchain_locksroot = EMPTY_MERKLE_ROOT
    IN  IF state_change.channel_identifier = cs.identifier
        THEN IF should_clear_channel
             THEN TransitionResult(NoChannel, <<>>)
             ELSE TransitionResult(
                    [settled EXCEPT
                        !.our_state.onchain_locksroot = state_change.our_onchain_locksroot,
                        !.partner_state.onchain_locksroot =
                            state_change.partner_onchain_locksroot],
                    <<Event("ContractSendChannelBatchUnlock", "", NoBalanceProof)>>)
        ELSE TransitionResult(cs, <<>>)

handle_channel_batch_unlock(cs, state_change) ==
    LET unlocked ==
            IF state_change.sender = cs.our_state.address
            THEN [cs EXCEPT !.our_state.onchain_locksroot = EMPTY_MERKLE_ROOT]
            ELSE IF state_change.sender = cs.partner_state.address
            THEN [cs EXCEPT !.partner_state.onchain_locksroot = EMPTY_MERKLE_ROOT]
            ELSE cs
        no_unlock_left_to_do ==
            /\ unlocked.our_state.onchain_locksroot = EMPTY_MERKLE_ROOT
            /\ unlocked.partner_state.onchain_locksroot = EMPTY_MERKLE_ROOT
    IN  IF get_status(cs) = "settled"
        THEN IF no_unlock_left_to_do
             THEN TransitionResult(NoChannel, <<>>)
             ELSE TransitionResult(unlocked, <<>>)
        ELSE TransitionResult(cs, <<>>)

\* Every value of a transaction slot: empty, or a TransactionExecutionStatus
\* with any blocks and any result (None, SUCCESS, FAILURE).
Transactions ==
    {NoTransaction}
    \cup {TransactionExecutionStatus(started, finished, result) :
            started \in {NoBlock} \cup Blocks, finished \in {NoBlock} \cup Blocks,
            result \in {"none", "success", "failure"}}

\* A channel with any content of its close and settle slots.
InitOnchain ==
    /\ channel_state \in
            {[InitialChannel EXCEPT !.close_transaction = close_transaction,
                                    !.settle_transaction = settle_transaction] :
                close_transaction \in Transactions, settle_transaction \in Transactions}
    /\ processed = {}
    /\ replica = InitialReplica
    /\ contract_sends = [type \in ContractSends |-> 0]
    /\ chain = [block_number |-> 1, closed_block_number |-> NoBlock]

Init ==
    /\ channel_state = InitialChannel
    /\ processed = {}
    /\ replica = InitialReplica
    /\ contract_sends = [type \in ContractSends |-> 0]
    /\ chain = [block_number |-> 1, closed_block_number |-> NoBlock]

\* The nonces are capped: both end-states together hold at most MaxProofs
\* balance proofs.
WithinBounds(cs) ==
    cs.our_state.balance_proof.nonce + cs.partner_state.balance_proof.nonce <= MaxProofs

\* A transition of the local node: the new state is committed, the events are
\* handed to the caller.
Apply(result) ==
    /\ channel_state # NoChannel
    /\ WithinBounds(result.new_state)
    /\ channel_state' = result.new_state
    /\ contract_sends' = CountContractSends(contract_sends, result.events)
    /\ UNCHANGED <<processed, replica, chain>>

\* The transition for the received message m.
Receive(m, result) ==
    /\ channel_state # NoChannel
    /\ WithinBounds(result.new_state)
    /\ channel_state' = result.new_state
    /\ processed' = IF result.events[1].type = "SendProcessed"
                    THEN processed \cup {m} ELSE processed
    /\ UNCHANGED <<replica, contract_sends, chain>>

SendLockedTransfer ==
    \E lock \in Locks :
        /\ create_sendlockedtransfer_enabled(channel_state, lock)
        /\ Apply(send_lockedtransfer(channel_state, lock))

SendRefundTransfer ==
    \E lock \in Locks :
        /\ send_refundtransfer_enabled(channel_state, lock)
        /\ Apply(send_refundtransfer(channel_state, lock))

SendUnlock ==
    \E secrethash \in SecretHashes :
        /\ create_unlock_enabled(channel_state,
                                 get_lock(channel_state.our_state, secrethash))
        /\ Apply(send_unlock(channel_state, secrethash))

EventsForExpiredLock ==
    \E lock \in Locks :
        /\ events_for_expired_lock_enabled(channel_state)
        /\ Apply(events_for_expired_lock(channel_state, lock))

ReceiveLockedTransfer ==
    \E m \in LockedTransferMessages(channel_state) :
        Receive(m, handle_receive_lockedtransfer(channel_state, m))

ReceiveTransferRefund ==
    \E m \in RefundTransferMessages(channel_state) :
        \E received_transfer \in OriginalTransfers(channel_state, m) :
            Receive(m, handle_refundtransfer(received_transfer, channel_state,
                                             [transfer |-> m]))

ReceiveUnlock ==
    \E m \in UnlockMessages(channel_state) :
        Receive(m, handle_unlock(channel_state, m))

ReceiveLockExpired ==
    \E m \in LockExpiredMessages(channel_state) :
        \E block_number \in DeliveryBlocks(channel_state, m) :
            Receive(m, handle_receive_lock_expired(channel_state, m, block_number))

RegisterOffchainSecret ==
    \E secrethash \in SecretHashes :
        Apply(TransitionResult(register_offchain_secret(channel_state, secrethash), <<>>))

RegisterOnchainSecret ==
    \E secrethash \in SecretHashes, secret_reveal_block_number \in Blocks,
       delete_lock \in BOOLEAN :
        Apply(TransitionResult(
                register_onchain_secret(channel_state, secrethash,
                                        secret_reveal_block_number, delete_lock),
                <<>>))

ActionChannelClose ==
    \E block_number \in Blocks :
        Apply(handle_action_close(channel_state, block_number))

ContractReceiveChannelClosed ==
    \E block_number \in Blocks, transaction_from \in {OurAddress, PartnerAddress},
       channel_identifier \in {ChannelIdentifier, "other_channel"} :
        Apply(handle_channel_closed(channel_state,
                [channel_identifier |-> channel_identifier,
                 transaction_from |-> transaction_from,
                 block_number |-> block_number]))

\* The assertions of handle_block: a closed channel has its closing block.
handle_block_enabled(cs) ==
    get_status(cs) = "closed" =>
        /\ cs.close_transaction # NoTransaction
        /\ cs.close_transaction.finished_block_number # NoBlock

Block ==
    \E block_number \in Blocks :
        /\ handle_block_enabled(channel_state)
        /\ Apply(handle_block(channel_state, [block_number |-> block_number], block_number))

ContractReceiveChannelSettled ==
    \E block_number \in Blocks, channel_identifier \in {ChannelIdentifier, "other_channel"},
       our_onchain_locksroot \in {EMPTY_MERKLE_ROOT,
                                  merkleroot(channel_state.our_state.merkletree)},
       partner_onchain_locksroot \in {EMPTY_MERKLE_ROOT,
                                      merkleroot(channel_state.partner_state.merkletree)} :
        Apply(handle_channel_settled(channel_state,
                [channel_identifier |-> channel_identifier,
                 block_number |-> block_number,
                 our_onchain_locksroot |-> our_onchain_locksroot,
                 partner_onchain_locksroot |-> partner_onchain_locksroot]))

ContractReceiveChannelBatchUnlock ==
    \E sender \in {OurAddress, PartnerAddress, OtherAddress} :
        Apply(handle_channel_batch_unlock(channel_state, [sender |-> sender]))

\* The off-chain protocol on an open channel.
Next ==
    \/ SendLockedTransfer
    \/ SendRefundTransfer
    \/ SendUnlock
    \/ EventsForExpiredLock
    \/ ReceiveLockedTransfer
    \/ ReceiveTransferRefund
    \/ ReceiveUnlock
    \/ ReceiveLockExpired
    \/ RegisterOffchainSecret
    \/ RegisterOnchainSecret

Spec == Init /\ [][Next]_vars

\* Received messages while the channel is closed and settled on-chain.
NextClose ==
    \/ ReceiveLockedTransfer
    \/ ReceiveTransferRefund
    \/ ReceiveUnlock
    \/ ReceiveLockExpired
    \/ ActionChannelClose
    \/ ContractReceiveChannelClosed
    \/ Block
    \/ ContractReceiveChannelSettled
    \/ ContractReceiveChannelBatchUnlock

SpecClose == Init /\ [][NextClose]_vars

\* The on-chain life cycle from any content of the transaction slots.
NextOnchain ==
    \/ ActionChannelClose
    \/ ContractReceiveChannelClosed
    \/ Block
    \/ ContractReceiveChannelSettled
    \/ ContractReceiveChannelBatchUnlock

SpecOnchain == InitOnchain /\ [][NextOnchain]_vars

\* The deposits the chain may report: who deposited, the new total and the
\* block that mined the deposit.
DepositTransactions ==
    [participant_address : {OurAddress, PartnerAddress, OtherAddress},
     contract_balance : 1..MaxContractBalance,
     deposit_block_number : Blocks]

ContractReceiveChannelNewBalance ==
    \E deposit_transaction \in DepositTransactions, block_number \in Blocks :
        /\ Len(channel_state.deposit_transaction_queue) < MaxQueued
        /\ Apply(handle_channel_newbalance(channel_state,
                    [deposit_transaction |-> deposit_transaction], block_number))

\* Deposits and the blocks that confirm them, on an open channel.
NextDeposit ==
    \/ ContractReceiveChannelNewBalance
    \/ Block

SpecDeposit == Init /\ [][NextDeposit]_vars

ContractReceiveUpdateTransfer ==
    \E block_number \in Blocks, channel_identifier \in {ChannelIdentifier, "other_channel"} :
        Apply(handle_channel_updated_transfer(channel_state,
                [channel_identifier |-> channel_identifier], block_number))

\* The whole on-chain life of the channel, the update of the partner's
\* balance proof included, with messages received before and after.
NextUpdate ==
    \/ ReceiveLockedTransfer
    \/ ReceiveUnlock
    \/ ActionChannelClose
    \/ ContractReceiveChannelClosed
    \/ ContractReceiveUpdateTransfer
    \/ Block
    \/ ContractReceiveChannelSettled
    \/ ContractReceiveChannelBatchUnlock

SpecUpdate == Init /\ [][NextUpdate]_vars

(***************************************************************************)
(* What is observed of a transition.  The handlers are pure: the result of *)
(* delivering a message in the current state is a value of the state.      *)
(***************************************************************************)
EndStates(cs) == {cs.our_state, cs.partner_state}

Accepted(result) == result.events[1].type = "SendProcessed"

InvalidReceived(kind) ==
    CASE kind = "LockedTransfer" -> "EventInvalidReceivedLockedTransfer"
      [] kind = "RefundTransfer" -> "EventInvalidReceivedTransferRefund"
      [] kind = "Unlock" -> "EventInvalidReceivedUnlock"
      [] kind = "LockExpired" -> "EventInvalidReceivedLockExpired"

\* P(m, result) holds of every message m the partner may deliver in state cs
\* and the handler's answer to it.
AllDeliveries(cs, P(_, _)) ==
    /\ \A m \in LockedTransferMessages(cs) : P(m, handle_receive_lockedtransfer(cs, m))
    /\ \A m \in RefundTransferMessages(cs) : \A t \in OriginalTransfers(cs, m) :
            P(m, handle_refundtransfer(t, cs, [transfer |-> m]))
    /\ \A m \in UnlockMessages(cs) : P(m, handle_unlock(cs, m))
    /\ \A m \in LockExpiredMessages(cs) : \A b \in DeliveryBlocks(cs, m) :
            P(m, handle_receive_lock_expired(cs, m, b))

\* P(m, result) holds of some message m the partner may deliver in state cs.
SomeDelivery(cs, P(_, _)) ==
    \/ \E m \in LockedTransferMessages(cs) : P(m, handle_receive_lockedtransfer(cs, m))
    \/ \E m \in RefundTransferMessages(cs) : \E t \in OriginalTransfers(cs, m) :
            P(m, handle_refundtransfer(t, cs, [transfer |-> m]))
    \/ \E m \in UnlockMessages(cs) : P(m, handle_unlock(cs, m))
    \/ \E m \in LockExpiredMessages(cs) : \E b \in DeliveryBlocks(cs, m) :
            P(m, handle_receive_lock_expired(cs, m, b))

\* P(m, result) holds of every message accepted before when it is delivered
\* once more in state cs: a refund against the transfer it mirrors, a
\* LockExpired at any block.
AllRedeliveries(cs, P(_, _)) ==
    /\ \A m \in Replays("LockedTransfer") : P(m, handle_receive_lockedtransfer(cs, m))
    /\ \A m \in Replays("RefundTransfer") :
            P(m, handle_refundtransfer(
                    OriginalTransfer(m.payment_identifier, m.lock, m.target, m.token),
                    cs, [transfer |-> m]))
    /\ \A m \in Replays("Unlock") : P(m, handle_unlock(cs, m))
    /\ \A m \in Replays("LockExpired") : \A b \in Blocks :
            P(m, handle_receive_lock_expired(cs, m, b))

LockSum(end_state) ==
    SumOver(end_state.secrethashes_to_lockedlocks)
    + SumOver(end_state.secrethashes_to_unlockedlocks)
    + SumOver(end_state.secrethashes_to_onchain_unlockedlocks)

(***************************************************************************)
(* Invariants of the end-states.                                           *)
(***************************************************************************)

\* C1: after any sequence of sent and received locked transfers, refunds,
\* unlocks and lock expirations, accepted or rejected, every end-state that
\* has a balance proof has balance_proof.locksroot = merkleroot(merkletree).
C1_LocksrootIsMerkleroot ==
    \A end_state \in EndStates(channel_state) :
        end_state.balance_proof # NoBalanceProof
            => end_state.balance_proof.locksroot = merkleroot(end_state.merkletree)

\* Both end-states hold a balance proof over a tree with a pending lock.
C1_Witness ==
    \A end_state \in EndStates(channel_state) :
        /\ end_state.balance_proof # NoBalanceProof
        /\ end_state.merkletree # <<>>

\* C2: after every transition, secret registrations with delete_lock true or
\* false and transfers reusing a pending secrethash included, the
\* locked_amount of each end-state's balance proof is the sum of lock.amount
\* over its locked, unlocked and on-chain unlocked locks.
C2_LockedAmountIsLockSum ==
    \A end_state \in EndStates(channel_state) :
        end_state.balance_proof # NoBalanceProof
            => end_state.balance_proof.locked_amount = LockSum(end_state)

\* C3: in every reachable state the three lock maps of each end-state are
\* pairwise disjoint by secrethash, with either value of delete_lock.
C3_LockMapsDisjoint ==
    \A end_state \in EndStates(channel_state) : \A secrethash \in SecretHashes :
        LET locked == end_state.secrethashes_to_lockedlocks[secrethash] # NoLock
            unlocked == end_state.secrethashes_to_unlockedlocks[secrethash] # NoLock
            onchain == end_state.secrethashes_to_onchain_unlockedlocks[secrethash] # NoLock
        IN  /\ ~(locked /\ unlocked)
            /\ ~(locked /\ onchain)
            /\ ~(unlocked /\ onchain)

\* C6: in every reachable state each end-state's balance proof has
\* transferred_amount + locked_amount <= UINT256_MAX.
C6_NoOverflow ==
    \A end_state \in EndStates(channel_state) :
        end_state.balance_proof.transferred_amount
            + end_state.balance_proof.locked_amount <= UINT256_MAX

(***************************************************************************)
(* Nonces and transferred amounts.                                         *)
(***************************************************************************)
NonceSteps(old, new) ==
    \/ new.balance_proof = old.balance_proof
    \/ new.balance_proof.nonce = old.balance_proof.nonce + 1

SequentialNonces ==
    /\ NonceSteps(channel_state.our_state, channel_state'.our_state)
    /\ NonceSteps(channel_state.partner_state, channel_state'.partner_state)

FirstNonceIsOne ==
    \A end_state \in EndStates(channel_state) :
        end_state.balance_proof # NoBalanceProof => end_state.balance_proof.nonce >= 1

AcceptedNonceIsNext ==
    AllDeliveries(channel_state, LAMBDA m, result :
        Accepted(result) =>
            /\ m.balance_proof.nonce = channel_state.partner_state.balance_proof.nonce + 1
            /\ result.new_state.partner_state.balance_proof = m.balance_proof)

\* C4: in every transition the nonce of each end-state stays or grows by
\* exactly 1; the first proof of an end-state has nonce 1; a received proof
\* is accepted only if its nonce is the sender's current nonce + 1.
C4_SequentialNonces ==
    /\ [](FirstNonceIsOne /\ AcceptedNonceIsNext)
    /\ [][SequentialNonces]_vars

\* Both end-states went from no proof to a first proof, one of them received.
C4_Witness ==
    /\ channel_state.our_state.balance_proof.nonce = 1
    /\ channel_state.partner_state.balance_proof.nonce = 1
    /\ processed # {}

Transferred(cs) ==
    [our |-> cs.our_state.balance_proof.transferred_amount,
     partner |-> cs.partner_state.balance_proof.transferred_amount]

TransferredNeverDecreases ==
    /\ Transferred(channel_state').our >= Transferred(channel_state).our
    /\ Transferred(channel_state').partner >= Transferred(channel_state).partner

\* The amount a received message adds to the partner's transferred_amount.
ReceivedClaim(cs, m) ==
    IF m.kind = "Unlock" THEN get_lock(cs.partner_state, m.secrethash).amount ELSE 0

TransferredGrowsOnUnlockOnly ==
    LET cs == channel_state
    IN  /\ AllDeliveries(cs, LAMBDA m, result :
                Transferred(result.new_state)
                    = [Transferred(cs) EXCEPT
                        !.partner = @ + (IF Accepted(result) THEN ReceivedClaim(cs, m)
                                         ELSE 0)])
        /\ \A lock \in Locks :
            /\ create_sendlockedtransfer_enabled(cs, lock) =>
                Transferred(send_lockedtransfer(cs, lock).new_state) = Transferred(cs)
            /\ send_refundtransfer_enabled(cs, lock) =>
                Transferred(send_refundtransfer(cs, lock).new_state) = Transferred(cs)
            /\ events_for_expired_lock_enabled(cs) =>
                Transferred(events_for_expired_lock(cs, lock).new_state) = Transferred(cs)
        /\ \A secrethash \in SecretHashes :
            LET lock == get_lock(cs.our_state, secrethash)
            IN  create_unlock_enabled(cs, lock) =>
                    Transferred(send_unlock(cs, secrethash).new_state)
                        = [Transferred(cs) EXCEPT !.our = @ + lock.amount]

\* C5: in every transition the transferred_amount of either end-state's
\* balance proof never decreases: locked transfers, refunds and lock
\* expirations leave it unchanged, an unlock adds exactly lock.amount.
C5_TransferredMonotonic ==
    /\ []TransferredGrowsOnUnlockOnly
    /\ [][TransferredNeverDecreases]_vars

\* An unlock of the partner was accepted and its amount claimed.
C5_Witness ==
    /\ channel_state.partner_state.balance_proof.transferred_amount > 0
    /\ \E m \in processed : m.kind = "Unlock"

(***************************************************************************)
(* Received messages: atomicity and replays.                               *)
(***************************************************************************)
\* The state is the one before the message but for the partner's end-state.
OnlyPartnerStateChanged(cs, new_state) ==
    [new_state EXCEPT !.partner_state = cs.partner_state] = cs

\* The lock-map update of an accepted message m.
LockMapsUpdated(partner, m) ==
    CASE m.kind \in {"LockedTransfer", "RefundTransfer"} ->
            partner.secrethashes_to_lockedlocks[m.lock.secrethash] = m.lock
      [] m.kind = "Unlock" ->
            /\ partner.secrethashes_to_lockedlocks[m.secrethash] = NoLock
            /\ partner.secrethashes_to_unlockedlocks[m.secrethash] = NoLock
            /\ partner.secrethashes_to_onchain_unlockedlocks[m.secrethash] = NoLock
      [] m.kind = "LockExpired" ->
            /\ partner.secrethashes_to_lockedlocks[m.secrethash] = NoLock
            /\ partner.secrethashes_to_unlockedlocks[m.secrethash] = NoLock

Committed(cs, m, result) ==
    LET partner == result.new_state.partner_state
    IN  /\ result.events[1].type = "SendProcessed"
        /\ partner.balance_proof = m.balance_proof
        /\ partner.merkletree # cs.partner_state.merkletree
        /\ merkleroot(partner.merkletree) = m.balance_proof.locksroot
        /\ LockMapsUpdated(partner, m)
        /\ OnlyPartnerStateChanged(cs, result.new_state)

Rejected(cs, m, result) ==
    /\ result.events[1].type = InvalidReceived(m.kind)
    /\ result.new_state = cs

\* C7: each received LockedTransfer, RefundTransfer, Unlock or LockExpired
\* yields exactly one event: either the balance proof, the candidate Merkle
\* tree and the lock-map update are all committed to partner_state with a
\* single SendProcessed, or the whole channel state is unchanged with a
\* single EventInvalidReceived*.
C7_ReceiveIsAtomic ==
    AllDeliveries(channel_state, LAMBDA m, result :
        /\ Len(result.events) = 1
        /\ Committed(channel_state, m, result) \/ Rejected(channel_state, m, result))

\* A message was accepted, and in the state reached one delivery is
\* committed and another rejected.
C7_Witness ==
    /\ processed # {}
    /\ SomeDelivery(channel_state, LAMBDA m, result :
                        Committed(channel_state, m, result))
    /\ SomeDelivery(channel_state, LAMBDA m, result :
                        Rejected(channel_state, m, result))

\* C8: delivering an already accepted message once more, at any later point,
\* changes nothing of the state and yields an EventInvalidReceived*.
C8_RedeliveryRejected ==
    AllRedeliveries(channel_state, LAMBDA m, result :
        /\ result.new_state = channel_state
        /\ Len(result.events) = 1
        /\ result.events[1].type = InvalidReceived(m.kind))

\* A locked transfer was accepted and its lock has expired since: the state
\* is the one the transfer was accepted in but for the nonce.
C8_Witness ==
    /\ \E m \in processed : m.kind = "LockedTransfer"
    /\ \E m \in processed : m.kind = "LockExpired"

\* C9: an Unlock accepted before and delivered a second time leaves the state
\* unchanged and yields EventInvalidReceivedUnlock with the nonce mismatch as
\* its reason.
C9_RedeliveredUnlockNonceMismatch ==
    \A m \in Replays("Unlock") :
        LET result == handle_unlock(channel_state, m)
        IN  /\ result.new_state = channel_state
            /\ result.events = <<Event("EventInvalidReceivedUnlock",
                                       "Nonce did not change sequentially.",
                                       NoBalanceProof)>>

\* C9, amended: an Unlock accepted before and delivered a second time leaves
\* the state unchanged and yields EventInvalidReceivedUnlock; the accepted
\* Unlock removed the lock, so unless a lock with the same secrethash is
\* pending again the lookup of the lock rejects it, with the reason that
\* there is no corresponding lock.
C9_RedeliveredUnlockNoLock ==
    \A m \in Replays("Unlock") :
        LET result == handle_unlock(channel_state, m)
        IN  /\ result.new_state = channel_state
            /\ Len(result.events) = 1
            /\ result.events[1].type = "EventInvalidReceivedUnlock"
            /\ get_lock(channel_state.partner_state, m.secrethash) = NoLock
                => result.events[1].reason = "There is no corresponding lock."

\* An Unlock was accepted, and its lock is gone.
C9_Witness ==
    \E m \in processed :
        /\ m.kind = "Unlock"
        /\ get_lock(channel_state.partner_state, m.secrethash) = NoLock

(***************************************************************************)
(* The closed channel.                                                     *)
(***************************************************************************)
\* A step taken while the status is not OPENED, for as long as the channel
\* state exists.
ClosedIsFinal ==
    get_status(channel_state) # "opened" /\ channel_state' # NoChannel =>
        /\ get_status(channel_state') # "opened"
        /\ channel_state'.partner_state.balance_proof
               = channel_state.partner_state.balance_proof
        /\ channel_state'.partner_state.merkletree = channel_state.partner_state.merkletree
        /\ processed' = processed

NothingAcceptedOnceClosed ==
    get_status(channel_state) # "opened" =>
        AllDeliveries(channel_state, LAMBDA m, result :
            Rejected(channel_state, m, result))

SlotStatus(transaction, done, running) ==
    IF transaction.result = "success" THEN done
    ELSE IF transaction.finished_block_number = NoBlock THEN running
    ELSE "unusable"

\* C11: get_status is a function of the transaction slots alone, settle taking
\* precedence over close: a settle transaction gives SETTLED, SETTLING or
\* UNUSABLE, else a close transaction gives CLOSED, CLOSING or UNUSABLE, else
\* OPENED.
C11_StatusOfSlots ==
    LET cs == channel_state
        expected ==
            IF cs.settle_transaction # NoTransaction
            THEN SlotStatus(cs.settle_transaction, "settled", "settling")
            ELSE IF cs.close_transaction # NoTransaction
            THEN SlotStatus(cs.close_transaction, "closed", "closing")
            ELSE "opened"
    IN  /\ get_status(cs) = expected
        /\ get_status(cs)
            = get_status([InitialChannel EXCEPT
                            !.close_transaction = cs.close_transaction,
                            !.settle_transaction = cs.settle_transaction])

\* A running settle transaction over a failed close transaction.
C11_Witness ==
    /\ channel_state.settle_transaction # NoTransaction
    /\ channel_state.close_transaction.result = "failure"
    /\ get_status(channel_state) = "settling"

ChannelClosed(cs, transaction_from, block_number) ==
    handle_channel_closed(cs, [channel_identifier |-> cs.identifier,
                               transaction_from |-> transaction_from,
                               block_number |-> block_number])

\* C12: when the close transaction was started by ActionChannelClose (status
\* CLOSING, no finished block) and ContractReceiveChannelClosed for this
\* channel is observed, the finished block becomes the event's block number,
\* the result SUCCESS and the status CLOSED.
C12_ClosingBecomesClosed ==
    LET cs == channel_state
    IN  get_status(cs) = "closing" /\ cs.close_transaction.finished_block_number = NoBlock
        => \A block_number \in Blocks, transaction_from \in {OurAddress, PartnerAddress} :
            LET new_state == ChannelClosed(cs, transaction_from, block_number).new_state
            IN  /\ new_state.close_transaction.finished_block_number = block_number
                /\ new_state.close_transaction.result = "success"
                /\ get_status(new_state) = "closed"

\* C13: a Block emits ContractSendChannelSettle exactly when the status is
\* CLOSED and block_number > closed block + settle_timeout; then
\* settle_transaction is recorded as running and the status is SETTLING;
\* otherwise nothing is emitted and settle_transaction is unchanged.
C13_SettleAfterTimeout ==
    LET cs == channel_state
    IN  cs # NoChannel /\ handle_block_enabled(cs) =>
        \A block_number \in Blocks :
            LET result == handle_block(cs, [block_number |-> block_number], block_number)
                due == /\ get_status(cs) = "closed"
                       /\ block_number > cs.close_transaction.finished_block_number
                                            + cs.settle_timeout
            IN  IF due
                THEN /\ Len(result.events) = 1
                     /\ result.events[1].type = "ContractSendChannelSettle"
                     /\ result.new_state.settle_transaction
                            = TransactionExecutionStatus(block_number, NoBlock, "none")
                     /\ get_status(result.new_state) = "settling"
                ELSE /\ result.events = <<>>
                     /\ result.new_state.settle_transaction = cs.settle_transaction

\* The settlement was started by a Block after the timeout of a closed channel.
C13_Witness ==
    /\ get_status(channel_state) = "settling"
    /\ channel_state.settle_transaction.started_block_number
           > channel_state.close_transaction.finished_block_number
             + channel_state.settle_timeout

ChannelSettled(cs, block_number, our_onchain_locksroot, partner_onchain_locksroot) ==
    handle_channel_settled(cs, [channel_identifier |-> cs.identifier,
                                block_number |-> block_number,
                                our_onchain_locksroot |-> our_onchain_locksroot,
                                partner_onchain_locksroot |-> partner_onchain_locksroot])

OnchainRoots(cs) ==
    {EMPTY_MERKLE_ROOT, UnknownRoot, merkleroot(cs.our_state.merkletree),
     merkleroot(cs.partner_state.merkletree)}

\* C14: on ContractReceiveChannelSettled for this channel the channel is
\* returned as None if and only if both reported locksroots are EMPTY_ROOT;
\* otherwise the settle transaction is finished (status SETTLED), both
\* onchain_locksroot fields are stored from the event and exactly one
\* ContractSendChannelBatchUnlock is emitted.
C14_SettledClearsOrStores ==
    LET cs == channel_state
    IN  cs # NoChannel =>
        \A block_number \in Blocks, our_root \in OnchainRoots(cs),
           partner_root \in OnchainRoots(cs) :
            LET result == ChannelSettled(cs, block_number, our_root, partner_root)
                new_state == result.new_state
            IN  IF our_root = EMPTY_MERKLE_ROOT /\ partner_root = EMPTY_MERKLE_ROOT
                THEN new_state = NoChannel /\ result.events = <<>>
                ELSE /\ new_state # NoChannel
                     /\ get_status(new_state) = "settled"
                     /\ new_state.settle_transaction.finished_block_number # NoBlock
                     /\ new_state.our_state.onchain_locksroot = our_root
                     /\ new_state.partner_state.onchain_locksroot = partner_root
                     /\ [new_state EXCEPT
                            !.settle_transaction = cs.settle_transaction,
                            !.our_state.onchain_locksroot = cs.our_state.onchain_locksroot,
                            !.partner_state.onchain_locksroot =
                                cs.partner_state.onchain_locksroot] = cs
                     /\ Len(result.events) = 1
                     /\ result.events[1].type = "ContractSendChannelBatchUnlock"

\* A settled channel that was kept, with a locksroot left to unlock.
C14_Witness ==
    /\ get_status(channel_state) = "settled"
    /\ channel_state.partner_state.onchain_locksroot # EMPTY_MERKLE_ROOT
    /\ channel_state.close_transaction # NoTransaction

\* The sides of cs whose onchain_locksroot is still to be unlocked.
LocksrootsLeft(cs) ==
    {end_state.address : end_state \in
        {e \in EndStates(cs) : e.onchain_locksroot # EMPTY_MERKLE_ROOT}}

BatchUnlockClearsSender ==
    LET cs == channel_state
    IN  cs # NoChannel =>
        \A sender \in {OurAddress, PartnerAddress, OtherAddress} :
            LET result == handle_channel_batch_unlock(cs, [sender |-> sender])
                left == LocksrootsLeft(cs) \ {sender}
            IN  /\ result.events = <<>>
                /\ get_status(cs) # "settled" => result.new_state = cs
                /\ get_status(cs) = "settled" =>
                    IF left = {}
                    THEN result.new_state = NoChannel
                    ELSE /\ result.new_state # NoChannel
                         /\ LocksrootsLeft(result.new_state) = left
                         /\ [result.new_state EXCEPT
                                !.our_state.onchain_locksroot =
                                    cs.our_state.onchain_locksroot,
                                !.partner_state.onchain_locksroot =
                                    cs.partner_state.onchain_locksroot] = cs

\* ContractReceiveChannelSettled disposes of no channel that has a locksroot
\* left to unlock.
SettledDisposesOnlyUnlocked ==
    LET cs == channel_state
    IN  cs # NoChannel =>
        \A block_number \in Blocks, our_root \in OnchainRoots(cs),
           partner_root \in OnchainRoots(cs) :
            ChannelSettled(cs, block_number, our_root, partner_root).new_state = NoChannel
                => LocksrootsLeft(cs) = {}

\* The step that disposes of the channel finds it without a locksroot left,
\* or settled with the one locksroot left that the step unlocks.
DisposedOnlyWhenUnlocked ==
    channel_state # NoChannel /\ channel_state' = NoChannel =>
        \/ LocksrootsLeft(channel_state) = {}
        \/ /\ get_status(channel_state) = "settled"
           /\ Cardinality(LocksrootsLeft(channel_state)) = 1

\* C15: ContractReceiveChannelBatchUnlock changes nothing unless the status
\* is SETTLED; in SETTLED it clears only the sender's onchain_locksroot and
\* the channel is returned as None exactly when both are EMPTY_ROOT
\* afterwards; over any sequence the channel is never disposed of before
\* settlement or while a side's onchain_locksroot is non-empty.
C15_BatchUnlockDisposal ==
    /\ [](BatchUnlockClearsSender /\ SettledDisposesOnlyUnlocked)
    /\ [][DisposedOnlyWhenUnlocked]_vars

(***************************************************************************)
(* Deposits and their confirmation.                                        *)
(***************************************************************************)
\* The balances after the deposits of the queue entries are applied in the
\* order of the sequence.
RECURSIVE AppliedInOrder(_, _)
AppliedInOrder(cs, orders) ==
    IF Len(orders) = 0 THEN cs
    ELSE AppliedInOrder(apply_channel_newbalance(cs, orders[1].transaction), Tail(orders))

QueueAscending(queue) ==
    \A i, j \in 1..Len(queue) : i < j => queue[i].block_number <= queue[j].block_number

\* A deposit that arrives at block_number before its confirmation block is
\* put on the queue and changes no balance.
UnconfirmedDepositQueued ==
    \A deposit_transaction \in DepositTransactions, block_number \in Blocks :
        LET cs == channel_state
            new_state == handle_channel_newbalance(cs,
                            [deposit_transaction |-> deposit_transaction],
                            block_number).new_state
            order == TransactionOrder(deposit_transaction.deposit_block_number,
                                      deposit_transaction)
        IN  block_number < deposit_transaction.deposit_block_number
                            + DEFAULT_NUMBER_OF_BLOCK_CONFIRMATIONS
                => /\ \E i \in 1..Len(new_state.deposit_transaction_queue) :
                        new_state.deposit_transaction_queue[i] = order
                   /\ Len(new_state.deposit_transaction_queue)
                        = Len(cs.deposit_transaction_queue) + 1
                   /\ QueueAscending(new_state.deposit_transaction_queue)
                   /\ EndStates(new_state) = EndStates(cs)

\* A Block pops every queued entry with block number + confirmations <=
\* block_number, applies them in ascending order and keeps the others.
ConfirmedDepositsPopped ==
    \A block_number \in Blocks :
        LET cs == channel_state
            queue == cs.deposit_transaction_queue
            confirmed(order) == order.block_number
                                + DEFAULT_NUMBER_OF_BLOCK_CONFIRMATIONS <= block_number
            unconfirmed(order) == ~confirmed(order)
            new_state == handle_block(cs, [block_number |-> block_number],
                                      block_number).new_state
        IN  /\ new_state.deposit_transaction_queue = SelectSeq(queue, unconfirmed)
            /\ new_state = AppliedInOrder(
                    [cs EXCEPT !.deposit_transaction_queue = SelectSeq(queue, unconfirmed)],
                    SelectSeq(queue, confirmed))

\* C16: a deposit that arrives unconfirmed is held in deposit_transaction_queue,
\* and every Block pops and applies, in ascending block-number order, all
\* queued entries with block number + DEFAULT_NUMBER_OF_BLOCK_CONFIRMATIONS <=
\* the current block number (equality included) and keeps the others queued.
C16_DepositsPoppedWhenConfirmed ==
    /\ QueueAscending(channel_state.deposit_transaction_queue)
    /\ UnconfirmedDepositQueued
    /\ ConfirmedDepositsPopped

(***************************************************************************)
(* The Merkle tree of the pending locks.                                   *)
(***************************************************************************)
LockHashes == {lockhash(lock) : lock \in Locks}

\* Adding a lockhash the tree does not hold and removing it again.
WithThenWithout(merkletree, lh) ==
    compute_merkletree_without(compute_merkletree_with(merkletree, lh), lh)

\* C17: for a tree t and a lockhash h not in t, removing h from t with h
\* added gives the leaves of t in the same order and the root of t; for the
\* empty t it gives the empty tree, whose root is EMPTY_MERKLE_ROOT.
C17_WithThenWithout ==
    \A end_state \in EndStates(channel_state) : \A lh \in LockHashes :
        LET t == end_state.merkletree
        IN  ~InLeaves(t, lh) =>
                /\ compute_merkletree_with(t, lh) # NoTree
                /\ WithThenWithout(t, lh) = t
                /\ merkleroot(WithThenWithout(t, lh)) = merkleroot(t)
                /\ Len(t) = 0 => merkleroot(WithThenWithout(t, lh)) = EMPTY_MERKLE_ROOT

\* One tree holds two leaves, the other is empty, and a lockhash is left to add.
C17_Witness ==
    /\ Len(channel_state.our_state.merkletree) = 2
    /\ Len(channel_state.partner_state.merkletree) = 0
    /\ \E lh \in LockHashes : ~InLeaves(channel_state.our_state.merkletree, lh)

\* The locks of the three lock maps of an end-state.
PendingLocks(end_state) ==
    ({end_state.secrethashes_to_lockedlocks[secrethash] : secrethash \in SecretHashes}
     \cup {end_state.secrethashes_to_unlockedlocks[secrethash] : secrethash \in SecretHashes}
     \cup {end_state.secrethashes_to_onchain_unlockedlocks[secrethash] :
                secrethash \in SecretHashes})
    \ {NoLock}

PendingSecretHashes(end_state) == {lock.secrethash : lock \in PendingLocks(end_state)}

\* C18: in every reachable state the width of each end-state's Merkle tree is
\* the number of distinct secrethashes in the union of its three lock maps,
\* and every leaf is the lockhash of exactly one lock of those maps, also
\* after a locked transfer reusing a pending secrethash and after
\* events_for_expired_lock on a lock held in the on-chain unlocked map.
C18_WidthIsPendingLocks ==
    \A end_state \in EndStates(channel_state) :
        /\ _merkletree_width(end_state.merkletree)
            = Cardinality(PendingSecretHashes(end_state))
        /\ \A i \in 1..Len(end_state.merkletree) :
            Cardinality({lock \in PendingLocks(end_state) :
                            lockhash(lock) = end_state.merkletree[i]}) = 1

(***************************************************************************)
(* Conservation of the deposited tokens.                                   *)
(***************************************************************************)
\* The two balances of a channel add up to the deposits less the withdrawals.
Conserved(our_state, partner_state) ==
    get_balance(our_state, partner_state) + get_balance(partner_state, our_state)
        = our_state.contract_balance + partner_state.contract_balance
          - our_state.total_withdraw - partner_state.total_withdraw

WithdrawRequests ==
    [amount : 1..MaxWithdraw, sender : {PartnerAddress, OtherAddress, NoAddress}]

ValidWithdrawRequest(cs, withdraw_request) ==
    /\ withdraw_request.sender = cs.partner_state.address
    /\ get_balance(cs.partner_state, cs.our_state) >= withdraw_request.amount

\* C20: a ReceiveWithdrawRequest is answered with SendWithdraw only if its
\* signature recovers to the partner's address and get_balance(partner, our)
\* >= the requested amount; a request with a bad signature or an amount above
\* the balance gets no event and leaves the state unchanged.
C20_WithdrawOnlyIfValid ==
    \A withdraw_request \in WithdrawRequests :
        LET cs == channel_state
            result == handle_receive_withdraw_request(cs, withdraw_request)
            sends == \E i \in 1..Len(result.events) : result.events[i].type = "SendWithdraw"
        IN  /\ sends => ValidWithdrawRequest(cs, withdraw_request)
            /\ ~ValidWithdrawRequest(cs, withdraw_request)
                => result.events = <<>> /\ result.new_state = cs

\* The withdrawals we may ask for.
ChannelWithdraws == [channel_identifier : {ChannelIdentifier}, total_withdraw : 1..MaxWithdraw]

\* C21: ActionChannelWithdraw dispatched through state_transition emits
\* exactly one SendWithdrawRequest when get_balance(our, partner) >= the
\* requested total and the status is prior to closed, and nothing otherwise;
\* the channel state is returned unchanged either way.
C21_WithdrawRequestWhenCovered ==
    \A withdraw \in ChannelWithdraws, block_number \in Blocks :
        LET cs == channel_state
            result == dispatch_action_withdraw(cs, withdraw, block_number)
            covered == /\ get_balance(cs.our_state, cs.partner_state)
                            >= withdraw.total_withdraw
                       /\ get_status(cs) \in CHANNEL_STATES_PRIOR_TO_CLOSED
        IN  /\ result.new_state = cs
            /\ IF covered
               THEN /\ Len(result.events) = 1
                    /\ result.events[1].type = "SendWithdrawRequest"
               ELSE result.events = <<>>

(***************************************************************************)
(* The unusable channel.                                                   *)
(***************************************************************************)
\* No message is accepted and no on-chain handler returns an event while the
\* status is UNUSABLE.
UnusableDoesNothing ==
    LET cs == channel_state
    IN  get_status(cs) = "unusable" /\ cs # NoChannel =>
            /\ AllDeliveries(cs, LAMBDA m, result : Rejected(cs, m, result))
            /\ \A block_number \in Blocks :
                /\ handle_action_close(cs, block_number).events = <<>>
                /\ handle_block(cs, [block_number |-> block_number],
                                block_number).events = <<>>
                /\ \A transaction_from \in {OurAddress, PartnerAddress} :
                    ChannelClosed(cs, transaction_from, block_number).events = <<>>
                /\ \A our_root \in OnchainRoots(cs), partner_root \in OnchainRoots(cs) :
                    ChannelSettled(cs, block_number, our_root, partner_root).events = <<>>

\* A step taken while the status is UNUSABLE leaves the channel in the state
\* graph with the status UNUSABLE.
UnusableIsFinal ==
    get_status(channel_state) = "unusable" /\ channel_state # NoChannel =>
        /\ channel_state' # NoChannel
        /\ get_status(channel_state') = "unusable"

\* C22: once a close or settle transaction has failed the status is UNUSABLE
\* and nothing succeeds any more: no received message is accepted, no event is
\* emitted, and the status stays UNUSABLE under Block, ActionChannelClose,
\* ContractReceiveChannelClosed and ContractReceiveChannelSettled.
C22_UnusableIsDead ==
    /\ [](UnusableDoesNothing)
    /\ [][UnusableIsFinal]_vars

(***************************************************************************)
(* The order of the checks of a received balance proof.                    *)
(***************************************************************************)
\* Balance proofs that may break any of the checks, several at once.
ReceivedBalanceProofs ==
    [nonce : Nonces,
     transferred_amount : {0, UINT256_MAX},
     locked_amount : {0, 1},
     locksroot : {EMPTY_MERKLE_ROOT},
     channel_identifier : {ChannelIdentifier, "other_channel"},
     token_network_address : {TokenNetworkAddress, "other_token_network"},
     chain_id : {ChainId, "other_chain"},
     sender : {PartnerAddress, OtherAddress, NoAddress}]

\* The checks a proof fails, numbered in the order of the specification.
FailedChecks(received_balance_proof, cs, sender_state) ==
    {i \in 1..7 :
        CASE i = 1 -> get_status(cs) # "opened"
          [] i = 2 -> received_balance_proof.channel_identifier # cs.identifier
          [] i = 3 -> received_balance_proof.token_network_address
                        # cs.token_network_address
          [] i = 4 -> received_balance_proof.chain_id # cs.chain_id
          [] i = 5 -> received_balance_proof.transferred_amount
                        + received_balance_proof.locked_amount > UINT256_MAX
          [] i = 6 -> received_balance_proof.nonce # get_next_nonce(sender_state)
          [] i = 7 -> received_balance_proof.sender # sender_state.address}

FailureReason(i, received_balance_proof) ==
    CASE i = 1 -> "The channel is already closed."
      [] i = 2 -> "channel_identifier does not match."
      [] i = 3 -> "token_network_address does not match."
      [] i = 4 -> "chain_id does not match."
      [] i = 5 -> "Balance proof total transferred amount would overflow onchain."
      [] i = 6 -> "Nonce did not change sequentially."
      [] i = 7 -> IF received_balance_proof.sender = NoAddress
                  THEN "Signature invalid, could not be recovered."
                  ELSE "Signature was valid but the expected address does not match."

\* C23: is_balance_proof_usable_onchain checks the status, the channel
\* identity (channel_identifier, token_network_address, chain_id), the
\* overflow, the nonce and the signature in this order: the reason returned is
\* that of the first check that fails, and the result is Ok only when none fails.
C23_FirstFailedCheckReported ==
    \A received_balance_proof \in ReceivedBalanceProofs :
        LET cs == channel_state
            failed == FailedChecks(received_balance_proof, cs, cs.partner_state)
            first == CHOOSE i \in failed : \A j \in failed : i <= j
            result == is_balance_proof_usable_onchain(received_balance_proof, cs,
                                                      cs.partner_state)
        IN  IF failed = {}
            THEN result.ok
            ELSE ~result.ok /\ result.msg = FailureReason(first, received_balance_proof)

\* The channel is closed and the partner has a balance proof: a proof can
\* fail the status check together with every other check.
C23_Witness ==
    /\ get_status(channel_state) = "closed"
    /\ channel_state.partner_state.balance_proof # NoBalanceProof
    /\ \E received_balance_proof \in ReceivedBalanceProofs :
        FailedChecks(received_balance_proof, channel_state,
                     channel_state.partner_state) = 1..7

(***************************************************************************)
(* The limits of a received locked transfer.                               *)
(***************************************************************************)
IsTransfer(m) == m.kind \in {"LockedTransfer", "RefundTransfer"}

\* A transfer whose lock would make the partner's tree too wide, or whose
\* lockhash is a leaf already, is rejected without state change.
WideOrKnownLockRejected ==
    LET cs == channel_state
        leaves == cs.partner_state.merkletree
    IN  AllDeliveries(cs, LAMBDA m, result :
            /\ IsTransfer(m)
            /\ \/ InLeaves(leaves, lockhash(m.lock))
               \/ _merkletree_width(Append(leaves, lockhash(m.lock)))
                    > MAXIMUM_PENDING_TRANSFERS
            => Rejected(cs, m, result))

\* C24: after any sequence of received LockedTransfer and RefundTransfer
\* messages the width of partner_state.merkletree is at most
\* MAXIMUM_PENDING_TRANSFERS; a transfer whose candidate tree would be wider,
\* or whose lockhash is already a leaf, is rejected without state change.
C24_PendingTransfersLimited ==
    /\ _merkletree_width(channel_state.partner_state.merkletree)
        <= MAXIMUM_PENDING_TRANSFERS
    /\ WideOrKnownLockRejected

\* The partner's tree is full and a further lock is on offer.
C24_Witness ==
    /\ _merkletree_width(channel_state.partner_state.merkletree)
        = MAXIMUM_PENDING_TRANSFERS
    /\ \E m \in LockedTransferMessages(channel_state) :
        /\ ~InLeaves(channel_state.partner_state.merkletree, lockhash(m.lock))
        /\ m.balance_proof = ExpectedLockedTransfer(channel_state, m.lock)

(***************************************************************************)
(* No over-commit.                                                         *)
(***************************************************************************)
\* A received transfer is accepted, and a local one created, only within
\* the distributable amount of its sender.
TransfersWithinDistributable ==
    LET cs == channel_state
    IN  /\ AllDeliveries(cs, LAMBDA m, result :
                IsTransfer(m) /\ Accepted(result)
                    => m.lock.amount <= get_distributable(cs.partner_state, cs.our_state))
        /\ \A lock \in Locks :
                create_sendlockedtransfer_enabled(cs, lock)
                    => lock.amount <= get_distributable(cs.our_state, cs.partner_state)

LockedWithinBalance(end_state, other) ==
    get_amount_locked(end_state) <= get_balance(end_state, other)

\* C25: a received locked transfer is accepted only if lock.amount <=
\* get_distributable(partner, our) and a local one is created only if amount
\* <= get_distributable(our, partner); so in every reachable state
\* get_amount_locked(end) <= get_balance(end, other) for both ends, under any
\* interleaving of transfers, unlocks, expirations and secret registrations.
C25_NoOverCommit ==
    /\ TransfersWithinDistributable
    /\ LockedWithinBalance(channel_state.our_state, channel_state.partner_state)
    /\ LockedWithinBalance(channel_state.partner_state, channel_state.our_state)

(***************************************************************************)
(* The received Unlock.                                                    *)
(***************************************************************************)
\* What an accepted Unlock m found in the state cs and left in new_state.
UnlockClaimsLock(cs, m, new_state) ==
    LET partner == cs.partner_state
        lock == get_lock(partner, m.secrethash)
    IN  /\ lock # NoLock
        /\ InLeaves(partner.merkletree, lockhash(lock))
        /\ m.balance_proof.locksroot
            = merkleroot(remove_first(partner.merkletree, lockhash(lock)))
        /\ m.balance_proof.transferred_amount
            = partner.balance_proof.transferred_amount + lock.amount
        /\ m.balance_proof.locked_amount = partner.balance_proof.locked_amount - lock.amount
        /\ new_state.partner_state.secrethashes_to_lockedlocks[m.secrethash] = NoLock
        /\ new_state.partner_state.secrethashes_to_unlockedlocks[m.secrethash] = NoLock
        /\ new_state.partner_state.secrethashes_to_onchain_unlockedlocks[m.secrethash] = NoLock
        /\ get_balance(new_state.partner_state, new_state.our_state)
            = get_balance(partner, cs.our_state) - lock.amount
        /\ get_balance(new_state.our_state, new_state.partner_state)
            = get_balance(cs.our_state, partner) + lock.amount

\* C26: a received Unlock is accepted only if the lock of its secrethash
\* exists on the partner's side, the proof's locksroot is the root of the
\* partner's tree without that lock, its transferred_amount is the current one
\* plus lock.amount and its locked_amount the current one less lock.amount;
\* on acceptance the lock leaves all three lock maps of partner_state,
\* get_balance(partner, our) drops and get_balance(our, partner) rises by
\* lock.amount.
C26_UnlockAcceptedWhenExact ==
    AllDeliveries(channel_state, LAMBDA m, result :
        m.kind = "Unlock" /\ Accepted(result)
            => UnlockClaimsLock(channel_state, m, result.new_state))

(***************************************************************************)
(* The received LockExpired.                                               *)
(***************************************************************************)
RegisteredOnchain(end_state, secrethash) ==
    end_state.secrethashes_to_onchain_unlockedlocks[secrethash] # NoLock

\* C27: a received LockExpired for a lock whose secret is registered on-chain
\* (its secrethash is a key of the partner's on-chain unlocked map) is
\* accepted at no block number and with no balance proof: the state, and with
\* it the pending lock and partner_state, is unchanged.
C27_OnchainSecretNeverExpires ==
    LET cs == channel_state
    IN  \A m \in LockExpiredMessages(cs), block_number \in Blocks :
            RegisteredOnchain(cs.partner_state, m.secrethash) =>
                LET result == handle_receive_lock_expired(cs, m, block_number)
                IN  /\ Rejected(cs, m, result)
                    /\ RegisteredOnchain(result.new_state.partner_state, m.secrethash)
                    /\ result.new_state.partner_state = cs.partner_state

\* The secret of a lock of the partner is registered on-chain, and the
\* LockExpired that would remove the lock is on offer.
C27_Witness ==
    \E secrethash \in SecretHashes :
        /\ RegisteredOnchain(channel_state.partner_state, secrethash)
        /\ InLeaves(channel_state.partner_state.merkletree,
                    lockhash(get_lock(channel_state.partner_state, secrethash)))
        /\ \E m \in LockExpiredMessages(channel_state) :
            m.balance_proof = ExpectedLockExpired(channel_state, secrethash)

\* The lock of the partner a LockExpired for the secrethash is about.
ExpiringLock(cs, secrethash) ==
    IF cs.partner_state.secrethashes_to_lockedlocks[secrethash] # NoLock
    THEN cs.partner_state.secrethashes_to_lockedlocks[secrethash]
    ELSE cs.partner_state.secrethashes_to_unlockedlocks[secrethash]

\* A LockExpired is not accepted before the receiver threshold of its lock;
\* one that is accepted at some block is accepted at every block from the
\* threshold on.
AcceptedFromReceiverThreshold ==
    LET cs == channel_state
    IN  \A m \in LockExpiredMessages(cs), b1 \in Blocks, b2 \in Blocks :
            LET lock == ExpiringLock(cs, m.secrethash)
                threshold == lock.expiration + DEFAULT_NUMBER_OF_BLOCK_CONFIRMATIONS
            IN  Accepted(handle_receive_lock_expired(cs, m, b1)) =>
                    /\ b1 >= threshold
                    /\ b2 >= threshold => Accepted(handle_receive_lock_expired(cs, m, b2))

\* The sender holds a transfer for expired only from expiration + 2 *
\* confirmations on, where a receiver at most the confirmations behind has
\* reached its own threshold.
SenderWaitsForReceiver ==
    \A lock \in Locks, sender_block \in Blocks, receiver_block \in Blocks :
        is_transfer_expired([lock |-> lock], channel_state, sender_block) =>
            /\ sender_block >= lock.expiration + 2 * DEFAULT_NUMBER_OF_BLOCK_CONFIRMATIONS
            /\ receiver_block >= sender_block - DEFAULT_NUMBER_OF_BLOCK_CONFIRMATIONS
                => receiver_block >= get_receiver_expiration_threshold(lock)

LockMovedToUnlocked(end_state, secrethash) ==
    [end_state EXCEPT
        !.secrethashes_to_lockedlocks[secrethash] = NoLock,
        !.secrethashes_to_unlockedlocks[secrethash] =
            end_state.secrethashes_to_lockedlocks[secrethash]]

OffchainSecretRegistered(before, after, secrethash) ==
    LET unlocked == before.secrethashes_to_unlockedlocks[secrethash] # NoLock
        onchain == before.secrethashes_to_onchain_unlockedlocks[secrethash] # NoLock
        unknown == get_lock(before, secrethash) = NoLock
    IN  /\ is_lock_locked(before, secrethash)
            => after = LockMovedToUnlocked(before, secrethash)
        /\ unlocked \/ onchain \/ unknown => after = before

\* C29: register_offchain_secret moves the lock of the secrethash from the
\* locked to the unlocked map on each end-state that holds it as locked and
\* changes nothing else; applied a second time, or to a secrethash that is
\* already unlocked, unlocked on-chain or unknown, it changes nothing.
C29_OffchainSecretMovesLock ==
    \A secrethash \in SecretHashes :
        LET cs == channel_state
            once == register_offchain_secret(cs, secrethash)
        IN  /\ OffchainSecretRegistered(cs.our_state, once.our_state, secrethash)
            /\ OffchainSecretRegistered(cs.partner_state, once.partner_state, secrethash)
            /\ once = [cs EXCEPT !.our_state = once.our_state,
                                 !.partner_state = once.partner_state]
            /\ register_offchain_secret(once, secrethash) = once

\* The lock an on-chain reveal of the secrethash is about: the unlocked one,
\* else the locked one.
RevealedLock(end_state, secrethash) ==
    IF end_state.secrethashes_to_unlockedlocks[secrethash] # NoLock
    THEN end_state.secrethashes_to_unlockedlocks[secrethash]
    ELSE end_state.secrethashes_to_lockedlocks[secrethash]

OnchainSecretRegistered(before, after, secrethash, secret_reveal_block_number) ==
    LET pending_lock == RevealedLock(before, secrethash)
    IN  pending_lock # NoLock =>
            IF pending_lock.expiration < secret_reveal_block_number
            THEN after = before
            ELSE /\ after.secrethashes_to_onchain_unlockedlocks[secrethash] = pending_lock
                 /\ after.secrethashes_to_lockedlocks[secrethash] = NoLock
                 /\ after.secrethashes_to_unlockedlocks[secrethash] = NoLock
                 /\ after.merkletree = before.merkletree
                 /\ after.balance_proof = before.balance_proof

\* C30: register_onchain_secret leaves an end-state entirely unchanged when
\* the pending lock's expiration < secret_reveal_block_number; when the
\* expiration >= the reveal block and delete_lock is true the lock ends up in
\* the on-chain unlocked map and in neither the locked nor the unlocked map,
\* with the Merkle tree and the balance proof unchanged.
C30_OnchainSecretRegistration ==
    \A secrethash \in SecretHashes, secret_reveal_block_number \in Blocks :
        LET cs == channel_state
            after == register_onchain_secret(cs, secrethash, secret_reveal_block_number, TRUE)
            ignored == register_onchain_secret(cs, secrethash, secret_reveal_block_number, FALSE)
        IN  /\ OnchainSecretRegistered(cs.our_state, after.our_state, secrethash,
                                       secret_reveal_block_number)
            /\ OnchainSecretRegistered(cs.partner_state, after.partner_state, secrethash,
                                       secret_reveal_block_number)
            /\ \A end_state \in EndStates(cs) :
                LET pending_lock == RevealedLock(end_state, secrethash)
                IN  /\ pending_lock # NoLock
                    /\ pending_lock.expiration < secret_reveal_block_number
                    => end_state \in EndStates(ignored)

\* One side holds a lock whose secret is known off-chain, the other a lock
\* that is still locked.
C30_Witness ==
    \E secrethash \in SecretHashes, other \in SecretHashes :
        /\ channel_state.our_state.secrethashes_to_unlockedlocks[secrethash] # NoLock
        /\ channel_state.partner_state.secrethashes_to_lockedlocks[other] # NoLock

(***************************************************************************)
(* An off-chain Unlock in flight while its secret is registered on-chain.  *)
(***************************************************************************)
\* The Unlock the partner signed for its lock of the secrethash, relative to
\* its last balance proof.
InFlightUnlock(partner, secrethash) ==
    LET lock == get_lock(partner, secrethash)
    IN  Message("Unlock",
                BalanceProof(partner.balance_proof.nonce + 1,
                             partner.balance_proof.transferred_amount + lock.amount,
                             partner.balance_proof.locked_amount - lock.amount,
                             merkleroot(remove_first(partner.merkletree, lockhash(lock))),
                             PartnerAddress),
                NoLock, secrethash, "payment", "target", "token")

\* The partner's lock of the secrethash is pending off-chain only, it is a
\* leaf of the partner's tree, and the partner's balance proof locks exactly
\* its pending locks.
UnlockInFlight(cs, secrethash) ==
    LET partner == cs.partner_state
        lock == get_lock(partner, secrethash)
    IN  /\ get_status(cs) = "opened"
        /\ partner.balance_proof # NoBalanceProof
        /\ \/ partner.secrethashes_to_lockedlocks[secrethash] # NoLock
           \/ partner.secrethashes_to_unlockedlocks[secrethash] # NoLock
        /\ partner.secrethashes_to_onchain_unlockedlocks[secrethash] = NoLock
        /\ ~ ( /\ partner.secrethashes_to_lockedlocks[secrethash] # NoLock
               /\ partner.secrethashes_to_unlockedlocks[secrethash] # NoLock )
        /\ InLeaves(partner.merkletree, lockhash(lock))
        /\ partner.balance_proof.locked_amount = get_amount_locked(partner)
        /\ partner.balance_proof.nonce + 1 \in Nonces

\* C31: after register_onchain_secret with delete_lock = false on an unexpired
\* lock of partner_state, the legitimate in-flight Unlock for that lock (next
\* nonce, transferred_amount raised and locked_amount lowered by lock.amount
\* relative to the partner's last balance proof, locksroot without the lock,
\* valid signature) is accepted by handle_unlock on an opened channel and
\* removes the lock from all three lock maps.
C31_InFlightUnlockAccepted ==
    channel_state # NoChannel =>
        \A secrethash \in SecretHashes, secret_reveal_block_number \in Blocks :
            LET lock == get_lock(channel_state.partner_state, secrethash)
                registered == register_onchain_secret(
                    channel_state, secrethash, secret_reveal_block_number, FALSE)
                unlock == InFlightUnlock(channel_state.partner_state, secrethash)
                result == handle_unlock(registered, unlock)
            IN  ( /\ UnlockInFlight(channel_state, secrethash)
                  /\ lock.expiration >= secret_reveal_block_number )
                => /\ Accepted(result)
                   /\ ~ is_lock_pending(result.new_state.partner_state, secrethash)
(***************************************************************************)
(* The expired lock of our side.                                           *)
(***************************************************************************)
\* What events_for_expired_lock did for a lock that is a leaf of our tree:
\* one SendLockExpired with the next balance proof, committed to our_state.
LockExpiredSent(cs, locked_lock, result) ==
    LET our == cs.our_state
        after == result.new_state.our_state
        merkletree == remove_first(our.merkletree, lockhash(locked_lock))
        secrethash == locked_lock.secrethash
    IN  /\ Len(result.events) = 1
        /\ result.events[1].type = "SendLockExpired"
        /\ result.events[1].balance_proof.nonce = our.balance_proof.nonce + 1
        /\ result.events[1].balance_proof.transferred_amount
            = our.balance_proof.transferred_amount
        /\ result.events[1].balance_proof.locked_amount
            = our.balance_proof.locked_amount - locked_lock.amount
        /\ result.events[1].balance_proof.locksroot = merkleroot(merkletree)
        /\ after.balance_proof = result.events[1].balance_proof
        /\ after.merkletree = merkletree
        /\ after.secrethashes_to_lockedlocks[secrethash] = NoLock
        /\ after.secrethashes_to_unlockedlocks[secrethash] = NoLock
        /\ after.secrethashes_to_onchain_unlockedlocks
            = our.secrethashes_to_onchain_unlockedlocks
        /\ result.new_state.partner_state = cs.partner_state

\* C32: events_for_expired_lock on an opened channel for a lock of our Merkle
\* tree emits exactly one SendLockExpired whose balance proof has the previous
\* nonce + 1, the same transferred_amount, the previous locked amount less
\* lock.amount and the root of the tree without the lock; the proof and the
\* tree are committed to our_state and the lock leaves the locked and the
\* unlocked map but not the on-chain unlocked map; for a lock that is not in
\* the tree nothing is emitted and nothing changes; the operation is refused
\* on a channel that is not opened.
C32_ExpiredLockSent ==
    /\ get_status(channel_state) # "opened"
        => ~ events_for_expired_lock_enabled(channel_state)
    /\ events_for_expired_lock_enabled(channel_state)
        => \A locked_lock \in Locks :
            LET result == events_for_expired_lock(channel_state, locked_lock)
            IN  IF InLeaves(channel_state.our_state.merkletree, lockhash(locked_lock))
                THEN LockExpiredSent(channel_state, locked_lock, result)
                ELSE result = TransitionResult(channel_state, <<>>)
(***************************************************************************)
(* The channel closed on-chain.                                            *)
(***************************************************************************)
ChannelClosedStateChanges ==
    [channel_identifier : {ChannelIdentifier, "other_channel"},
     transaction_from : {OurAddress, PartnerAddress},
     block_number : Blocks]

Emits(result, type) == \E i \in DOMAIN result.events : result.events[i].type = type

\* The event reports the close of this channel, which was not closed before.
JustClosed(cs, state_change) ==
    /\ state_change.channel_identifier = cs.identifier
    /\ get_status(cs) \in {"opened", "closing"}

\* C33: on ContractReceiveChannelClosed, ContractSendChannelUpdateTransfer is
\* emitted, and update_transaction recorded as running, if and only if the
\* channel was just closed by this event, the closer is not our address, a
\* partner balance proof exists and update_transaction is None; the event
\* carries the partner's latest accepted balance proof; it is never emitted
\* when we closed the channel or when ContractReceiveUpdateTransfer was
\* observed before.
C33_UpdateTransferWhenPartnerCloses ==
    channel_state # NoChannel =>
        \A state_change \in ChannelClosedStateChanges :
            LET cs == channel_state
                result == handle_channel_closed(cs, state_change)
                emitted == Emits(result, "ContractSendChannelUpdateTransfer")
            IN  /\ emitted <=>
                    /\ JustClosed(cs, state_change)
                    /\ state_change.transaction_from # cs.our_state.address
                    /\ cs.partner_state.balance_proof # NoBalanceProof
                    /\ cs.update_transaction = NoTransaction
                /\ emitted =>
                    /\ result.events
                        = <<Event("ContractSendChannelUpdateTransfer", "",
                                  cs.partner_state.balance_proof)>>
                    /\ result.new_state.update_transaction
                        = TransactionExecutionStatus(state_change.block_number,
                                                     NoBlock, "none")
                /\ ~ emitted =>
                    result.new_state.update_transaction = cs.update_transaction
(***************************************************************************)
(* The close started by us.                                                *)
(***************************************************************************)
\* C34: ActionChannelClose emits ContractSendChannelClose, carrying the
\* partner's current balance proof or none, and records close_transaction as
\* running (status closing) if and only if the status is in
\* CHANNEL_STATES_PRIOR_TO_CLOSED; in every other status it emits nothing and
\* leaves close_transaction unchanged.
C34_CloseWhenPriorToClosed ==
    channel_state # NoChannel =>
        \A block_number \in Blocks :
            LET cs == channel_state
                result == handle_action_close(cs, block_number)
            IN  IF get_status(cs) \in CHANNEL_STATES_PRIOR_TO_CLOSED
                THEN /\ result.events
                        = <<Event("ContractSendChannelClose", "",
                                  cs.partner_state.balance_proof)>>
                     /\ result.new_state.close_transaction
                        = TransactionExecutionStatus(block_number, NoBlock, "none")
                     /\ get_status(result.new_state) = "closing"
                ELSE /\ result.events = <<>>
                     /\ result.new_state.close_transaction = cs.close_transaction

\* Our close is running and the partner has a balance proof to close with.
C34_Witness ==
    /\ channel_state # NoChannel
    /\ get_status(channel_state) = "closing"
    /\ channel_state.partner_state.balance_proof # NoBalanceProof
(***************************************************************************)
(* The locked transfer of our side.                                        *)
(***************************************************************************)
\* What send_lockedtransfer did: one SendLockedTransfer with the next balance
\* proof, committed to our_state, and the amount taken from what is
\* distributable.
LockedTransferSent(cs, lock, result) ==
    LET our == cs.our_state
        after == result.new_state.our_state
        merkletree == Append(our.merkletree, lockhash(lock))
    IN  /\ Len(result.events) = 1
        /\ result.events[1].type = "SendLockedTransfer"
        /\ result.events[1].balance_proof.nonce = our.balance_proof.nonce + 1
        /\ our.balance_proof = NoBalanceProof => result.events[1].balance_proof.nonce = 1
        /\ result.events[1].balance_proof.transferred_amount
            = our.balance_proof.transferred_amount
        /\ result.events[1].balance_proof.locked_amount
            = our.balance_proof.locked_amount + lock.amount
        /\ result.events[1].balance_proof.locksroot = merkleroot(merkletree)
        /\ after.balance_proof = result.events[1].balance_proof
        /\ after.merkletree = merkletree
        /\ after.secrethashes_to_lockedlocks[lock.secrethash] = lock
        /\ get_distributable(after, result.new_state.partner_state)
            = get_distributable(our, cs.partner_state) - lock.amount

\* C35: send_lockedtransfer on an opened channel with amount <=
\* get_distributable(our, partner) and a lockhash that is not in our tree
\* emits one SendLockedTransfer whose balance proof has the previous nonce + 1
\* (1 on a fresh end-state), the same transferred_amount, the previous locked
\* amount + amount and the root of the tree with the new lock; afterwards the
\* lock is in our locked locks and get_distributable(our, partner) is smaller
\* by exactly amount; when a precondition fails the operation is refused and
\* nothing is changed.
C35_LockedTransferSent ==
    \A lock \in Locks :
        LET cs == channel_state
            preconditions ==
                /\ get_status(cs) = "opened"
                /\ lock.amount <= get_distributable(cs.our_state, cs.partner_state)
                /\ ~ InLeaves(cs.our_state.merkletree, lockhash(lock))
        IN  /\ create_sendlockedtransfer_enabled(cs, lock) <=> preconditions
            /\ preconditions => LockedTransferSent(cs, lock, send_lockedtransfer(cs, lock))
(***************************************************************************)
(* The contract balances under deposits.                                   *)
(***************************************************************************)
\* The deposit mined at deposit_block_number is confirmed at block_number.
DepositConfirmedAt(deposit_block_number, block_number) ==
    deposit_block_number + DEFAULT_NUMBER_OF_BLOCK_CONFIRMATIONS <= block_number

\* The end-state before and after a transition at block_number: its balance
\* did not decrease, and a new balance is the total of one of the deposits
\* the transition could apply, made by this participant and confirmed.
BalanceFromConfirmedDeposit(before, after, deposits, block_number) ==
    /\ after.contract_balance >= before.contract_balance
    /\ after.contract_balance # before.contract_balance
        => \E deposit_transaction \in deposits :
            /\ deposit_transaction.participant_address = before.address
            /\ deposit_transaction.contract_balance = after.contract_balance
            /\ DepositConfirmedAt(deposit_transaction.deposit_block_number, block_number)

QueuedDeposits(cs) ==
    {cs.deposit_transaction_queue[i].transaction :
        i \in DOMAIN cs.deposit_transaction_queue}

Mirrored(end_state) ==
    [nonce |-> end_state.balance_proof.nonce,
     transferred_amount |-> end_state.balance_proof.transferred_amount,
     locked_amount |-> end_state.balance_proof.locked_amount,
     locksroot |-> end_state.balance_proof.locksroot,
     pending_locks |-> PendingLocks(end_state)]

\* The message of the event is sent: it is in flight with the lock it is
\* about and our_state as it is after creating it.
Produce(result, kind, lock) ==
    /\ Len(replica.in_flight) < MaxInFlight
    /\ result.new_state.our_state.balance_proof.nonce <= MaxMirrorProofs
    /\ channel_state' = result.new_state
    /\ replica' = [replica EXCEPT !.in_flight =
            Append(@, [message |-> Message(kind, result.events[1].balance_proof,
                                           IF kind = "LockedTransfer" THEN lock ELSE NoLock,
                                           lock.secrethash, "payment", "target", "token"),
                       lock |-> lock,
                       produced |-> Mirrored(result.new_state.our_state)])]
    /\ UNCHANGED <<processed, contract_sends, chain>>

MirrorSendLockedTransfer ==
    \E lock \in Locks :
        /\ create_sendlockedtransfer_enabled(channel_state, lock)
        /\ Produce(send_lockedtransfer(channel_state, lock), "LockedTransfer", lock)

MirrorSendUnlock ==
    \E secrethash \in SecretHashes :
        LET lock == get_lock(channel_state.our_state, secrethash)
        IN  /\ create_unlock_enabled(channel_state, lock)
            /\ Produce(send_unlock(channel_state, secrethash), "Unlock", lock)

MirrorEventsForExpiredLock ==
    \E lock \in Locks :
        /\ events_for_expired_lock_enabled(channel_state)
        /\ events_for_expired_lock(channel_state, lock).events # <<>>
        /\ Produce(events_for_expired_lock(channel_state, lock), "LockExpired", lock)

\* The blocks at which the partner's replica may receive the message: a
\* LockExpired from the receiver's threshold on.
MirrorBlocks(sent) ==
    IF sent.message.kind = "LockExpired"
    THEN {b \in Blocks : b >= get_receiver_expiration_threshold(sent.lock)}
    ELSE Blocks

\* The partner's replica handles the message at block_number.
MirrorHandle(cs, m, block_number) ==
    CASE m.kind = "LockedTransfer" -> handle_receive_lockedtransfer(cs, m)
      [] m.kind = "Unlock" -> handle_unlock(cs, m)
      [] m.kind = "LockExpired" -> handle_receive_lock_expired(cs, m, block_number)

MirrorDeliver ==
    /\ replica.in_flight # <<>>
    /\ \E block_number \in MirrorBlocks(Head(replica.in_flight)) :
        replica' = [channel_state |->
                        MirrorHandle(replica.channel_state,
                                     Head(replica.in_flight).message,
                                     block_number).new_state,
                    in_flight |-> Tail(replica.in_flight)]
    /\ UNCHANGED <<channel_state, processed, contract_sends, chain>>

NextMirror ==
    \/ MirrorSendLockedTransfer
    \/ MirrorSendUnlock
    \/ MirrorEventsForExpiredLock
    \/ MirrorDeliver

SpecMirror == Init /\ [][NextMirror]_vars

\* C37: two replicas of one opened channel agree on the contract balances;
\* every message ours creates with send_lockedtransfer, send_unlock and
\* events_for_expired_lock reaches the partner's replica in the order of
\* creation with a valid signature (a LockExpired from the receiver's
\* threshold on, no secret registered on-chain).  Then the partner's replica
\* accepts every message, and after each delivery its partner_state has the
\* nonce, transferred_amount, locked_amount, locksroot and pending locks that
\* our_state had when the message was created.
C37_MirroredReplicas ==
    replica.in_flight # <<>> =>
        LET sent == Head(replica.in_flight)
        IN  \A block_number \in MirrorBlocks(sent) :
                LET result == MirrorHandle(replica.channel_state, sent.message,
                                           block_number)
                IN  /\ Accepted(result)
                    /\ Mirrored(result.new_state.partner_state) = sent.produced
(***************************************************************************)
(* The order of the statuses.                                              *)
(***************************************************************************)
StatusOrder == <<"opened", "closing", "closed", "settling", "settled">>

StatusRank(status) == CHOOSE i \in DOMAIN StatusOrder : StatusOrder[i] = status

\* One step of a channel that is there before and after it.
StatusMovesForward ==
    (channel_state # NoChannel /\ channel_state' # NoChannel) =>
        /\ StatusRank(get_status(channel_state')) >= StatusRank(get_status(channel_state))
        /\ channel_state.close_transaction # NoTransaction
            => get_status(channel_state') # "opened"
        /\ channel_state.settle_transaction # NoTransaction
            => get_status(channel_state') \notin {"opened", "closing", "closed"}
        /\ channel_state.close_transaction.finished_block_number # NoBlock
            => channel_state'.close_transaction.finished_block_number
                = channel_state.close_transaction.finished_block_number
        /\ channel_state.settle_transaction.finished_block_number # NoBlock
            => channel_state'.settle_transaction.finished_block_number
                = channel_state.settle_transaction.finished_block_number

\* C38: under any sequence of state changes the status only moves forward in
\* the order opened, closing, closed, settling, settled (steps may be
\* skipped): once close_transaction is set the status is never opened again,
\* once settle_transaction is set it is never a close-phase status again, and
\* a finished close or settle block number, once filled, is never overwritten.
C38_StatusOnlyForward ==
    /\ [](channel_state # NoChannel
            => get_status(channel_state) \in {StatusOrder[i] : i \in DOMAIN StatusOrder})
    /\ [][StatusMovesForward]_vars

\* The channel went through its whole life: closed on-chain, settlement
\* started by a Block, settled on-chain.
C38_Witness ==
    /\ channel_state # NoChannel
    /\ get_status(channel_state) = "settled"
    /\ channel_state.close_transaction.finished_block_number # NoBlock
    /\ channel_state.settle_transaction.started_block_number # NoBlock
    /\ channel_state.settle_transaction.finished_block_number # NoBlock
(***************************************************************************)
(* The on-chain transactions the channel asks for.                         *)
(***************************************************************************)
\* C39: over any sequence of state changes of one channel each of
\* ContractSendChannelClose, ContractSendChannelSettle and
\* ContractSendChannelUpdateTransfer is emitted at most once: a repeated
\* ActionChannelClose, repeated Blocks after the settlement window and a
\* repeated ContractReceiveChannelClosed do not emit them again.
C39_ContractSendsAtMostOnce ==
    \A type \in ContractSends : contract_sends[type] <= 1

\* The partner closed: the update of its balance proof and, after the
\* settlement window, the settle were asked for, and the settle is running.
C39_Witness ==
    /\ contract_sends["ContractSendChannelUpdateTransfer"] = 1
    /\ contract_sends["ContractSendChannelSettle"] = 1
    /\ channel_state # NoChannel
    /\ get_status(channel_state) = "settling"
(***************************************************************************)
(* The channel on a chain whose blocks keep arriving: every new block is   *)
(* handed to the channel as a Block, and what the chain reports is handled *)
(* at the block of the report.                                             *)
(***************************************************************************)
\* The transition at the current block of the chain.
ApplyOnChain(result, new_chain) ==
    /\ channel_state' = result.new_state
    /\ contract_sends' = CountContractSends(contract_sends, result.events)
    /\ chain' = new_chain
    /\ UNCHANGED <<processed, replica>>

ChainActionChannelClose ==
    /\ chain.closed_block_number = NoBlock
    /\ get_status(channel_state) = "opened"
    /\ ApplyOnChain(handle_action_close(channel_state, chain.block_number), chain)

\* The channel is closed on-chain in the current block, by the partner or,
\* when our close is running, by us; the settlement window ends within the
\* blocks that are followed.
ChainChannelClosed ==
    /\ chain.closed_block_number = NoBlock
    /\ chain.block_number + SettleTimeout < MaxChainBlock
    /\ \E transaction_from \in {OurAddress, PartnerAddress} :
        /\ transaction_from = OurAddress => get_status(channel_state) = "closing"
        /\ ApplyOnChain(
                handle_channel_closed(channel_state,
                    [channel_identifier |-> ChannelIdentifier,
                     transaction_from |-> transaction_from,
                     block_number |-> chain.block_number]),
                [chain EXCEPT !.closed_block_number = chain.block_number])

\* A deposit mined in a block up to the current one is reported; its
\* confirmation is within the blocks that are followed.
ChainChannelNewBalance ==
    \E deposit_transaction \in DepositTransactions :
        /\ deposit_transaction.deposit_block_number <= chain.block_number
        /\ deposit_transaction.deposit_block_number
            + DEFAULT_NUMBER_OF_BLOCK_CONFIRMATIONS < MaxChainBlock
        /\ Len(channel_state.deposit_transaction_queue) < MaxQueued
        /\ ApplyOnChain(
                handle_channel_newbalance(channel_state,
                    [deposit_transaction |-> deposit_transaction], chain.block_number),
                chain)

ChainBlock ==
    /\ chain.block_number < MaxChainBlock
    /\ handle_block_enabled(channel_state)
    /\ ApplyOnChain(
            handle_block(channel_state, [block_number |-> chain.block_number + 1],
                         chain.block_number + 1),
            [chain EXCEPT !.block_number = chain.block_number + 1])

NextChain ==
    \/ ChainActionChannelClose
    \/ ChainChannelClosed
    \/ ChainChannelNewBalance
    \/ ChainBlock

\* Blocks keep arriving.
SpecChain == Init /\ [][NextChain]_vars /\ WF_vars(ChainBlock)

\* Once the channel is closed on-chain, the settle is eventually asked for
\* and the status is settling.
ClosedLeadsToSettling ==
    (chain.closed_block_number # NoBlock)
        ~> ( /\ contract_sends["ContractSendChannelSettle"] >= 1
             /\ get_status(channel_state) = "settling" )

\* A deposit on the queue is eventually popped: the queue becomes empty.
QueuedDepositsLeadToEmptyQueue ==
    (channel_state.deposit_transaction_queue # <<>>)
        ~> (channel_state.deposit_transaction_queue = <<>>)

====
